---------------------------- MODULE Spec2Model ----------------------------
(***************************************************************************)
(* PS -> RFP worksheet sanitizer of BOM_automation.                         *)
(*                                                                         *)
(* The module models main() of ps2rfp_COM.py as a state machine (one       *)
(* action per statement group of main, in program order), with the Excel   *)
(* object model it drives reduced to what the program reads and writes:    *)
(* an ordered list of worksheets, each a grid of cells plus a list of      *)
(* shapes, and a disk of named files.  freeze_to_values and the COVER      *)
(* deletion of the openpyxl variant ps2rfp.py are modelled beside it, and   *)
(* so is main() of bom_parser_v2.py up to the deletion of rows 1:3.         *)
(*                                                                         *)
(* Text is a sequence of one-character strings, so that substring search,  *)
(* case folding, replacement and the file-name regular expressions are     *)
(* computed character by character as the program (or the engine call it   *)
(* makes) computes them.                                                   *)
(***************************************************************************)
EXTENDS Integers, Sequences, FiniteSets, TLC

(***************************************************************************)
(* Characters and text                                                     *)
(***************************************************************************)
UpperChars == <<"A","B","C","D","E","F","G","H","I","J","K","L","M",
                "N","O","P","Q","R","S","T","U","V","W","X","Y","Z">>

LowerChars == <<"a","b","c","d","e","f","g","h","i","j","k","l","m",
                "n","o","p","q","r","s","t","u","v","w","x","y","z">>

Digits == {"0","1","2","3","4","5","6","7","8","9"}

\* "\t" stands for any whitespace character that is not the plain space.
Whitespace == {" ", "\t"}

\* str.lower() / str.upper() on one character.
LowerChar(ch) ==
    IF \E i \in 1..26 : UpperChars[i] = ch
    THEN LowerChars[CHOOSE i \in 1..26 : UpperChars[i] = ch]
    ELSE ch

UpperChar(ch) ==
    IF \E i \in 1..26 : LowerChars[i] = ch
    THEN UpperChars[CHOOSE i \in 1..26 : LowerChars[i] = ch]
    ELSE ch

Lower(s) == [i \in 1..Len(s) |-> LowerChar(s[i])]

Upper(s) == [i \in 1..Len(s) |-> UpperChar(s[i])]

\* needle occurs in s at index i, compared exactly.
OccursAt(s, needle, i) ==
    /\ i >= 1
    /\ i + Len(needle) - 1 <= Len(s)
    /\ SubSeq(s, i, i + Len(needle) - 1) = needle

\* Python's `needle in s`.
Contains(s, needle) == \E i \in 1..Len(s) : OccursAt(s, needle, i)

\* `needle.lower() in s.lower()`; also the match of Range.Find / Range.Replace
\* with LookAt=xlPart, MatchCase=False.
ContainsCI(s, needle) == Contains(Lower(s), Lower(needle))

\* str.strip() == "" : the text holds whitespace only.
IsBlank(s) == \A i \in 1..Len(s) : s[i] \in Whitespace

(***************************************************************************)
(* Literals of the program                                                  *)
(***************************************************************************)
DDP == <<"D","D","P">>
FOB == <<"F","O","B">>
USA == <<"U","S","A">>
FOB_BUSAN_PORT ==
    <<"F","O","B",","," ","B","U","S","A","N"," ","P","O","R","T">>
RFP_DASH == <<"R","F","P","-">>
PS_DASH == <<"P","S","-">>
SP_RFP_DASH == <<" ","R","F","P","-">>
UNDERSCORE_RFP == <<"_","R","F","P">>
DOT_XLSX == <<".","x","l","s","x">>
DOT_XLSM == <<".","x","l","s","m">>
COVER == <<"c","o","v","e","r">>
PS == <<"p","s">>

(***************************************************************************)
(* pathlib: PurePath.suffix / PurePath.stem of a file name                  *)
(***************************************************************************)
\* name.rfind("."): the last index holding ".", 0 when there is none.
RFindDot(name) ==
    LET dots == {i \in 1..Len(name) : name[i] = "."}
    IN IF dots = {} THEN 0 ELSE CHOOSE i \in dots : \A j \in dots : j <= i

\* The suffix starts at the last dot unless that dot is the first or the last
\* character of the name.
HasSuffix(name) == RFindDot(name) > 1 /\ RFindDot(name) < Len(name)

Suffix(name) ==
    IF HasSuffix(name) THEN SubSeq(name, RFindDot(name), Len(name)) ELSE <<>>

Stem(name) ==
    IF HasSuffix(name) THEN SubSeq(name, 1, RFindDot(name) - 1) ELSE name

(***************************************************************************)
(* rename_to_rfp                                                            *)
(***************************************************************************)
\* ^(\d{6}) : the name starts with six digits.
StartsWithDate(name) ==
    Len(name) >= 6 /\ \A i \in 1..6 : name[i] \in Digits

\* re.match(r"^(\d{6})\sPS-(.*)$", name, flags=re.IGNORECASE)
MatchDatePs(name) ==
    /\ StartsWithDate(name)
    /\ Len(name) >= 10
    /\ name[7] \in Whitespace
    /\ Lower(SubSeq(name, 8, 10)) = Lower(PS_DASH)

\* group(3) of re.match(r"^(\d{6})(\s?)(.*)$", name): \s? is greedy, so one
\* whitespace character after the date, when there is one, is left out.
RestAfterDate(name) ==
    IF Len(name) >= 7 /\ name[7] \in Whitespace
    THEN SubSeq(name, 8, Len(name))
    ELSE SubSeq(name, 7, Len(name))

RenameDropsExtension(name) ==
    IF MatchDatePs(name)
    THEN SubSeq(name, 1, 6) \o SP_RFP_DASH \o SubSeq(name, 11, Len(name))
    ELSE IF StartsWithDate(name) /\ ~Contains(Upper(name), RFP_DASH)
    THEN SubSeq(name, 1, 6) \o SP_RFP_DASH \o RestAfterDate(name)
    ELSE Stem(name) \o UNDERSCORE_RFP

RenameCaseSensitive(name) ==
    IF StartsWithDate(name) /\ Len(name) >= 10 /\ name[7] \in Whitespace
       /\ SubSeq(name, 8, 10) = PS_DASH
    THEN SubSeq(name, 1, 6) \o SP_RFP_DASH \o SubSeq(name, 11, Len(name))
    ELSE IF StartsWithDate(name) /\ ~Contains(Upper(name), RFP_DASH)
    THEN SubSeq(name, 1, 6) \o SP_RFP_DASH \o RestAfterDate(name)
    ELSE Stem(name) \o UNDERSCORE_RFP \o Suffix(name)

\* The file name of rename_to_rfp(src_path); with_name keeps the directory.
RenameToRfp(name) ==
    IF MatchDatePs(name)
    THEN SubSeq(name, 1, 6) \o SP_RFP_DASH \o SubSeq(name, 11, Len(name))
    ELSE IF StartsWithDate(name) /\ ~Contains(Upper(name), RFP_DASH)
    THEN SubSeq(name, 1, 6) \o SP_RFP_DASH \o RestAfterDate(name)
    ELSE Stem(name) \o UNDERSCORE_RFP \o Suffix(name)

(***************************************************************************)
(* Worksheets: cells, used range, Range.Find / FindNext, Range.Replace      *)
(*                                                                         *)
(* A cell is [formula, text]: text is the value the cell shows, formula    *)
(* says whether the cell holds a formula that computes it.  The empty cell *)
(* shows the empty text.  A position is <<row, column>>, 1-based.          *)
(***************************************************************************)
EmptyCell == [formula |-> FALSE, text |-> <<>>]

\* What Find and Replace read in a cell (LookIn = xlFormulas, the setting of
\* a fresh Excel session): a constant's text, a formula's source.  The source
\* of a formula is opaque here and holds none of the program's literals.
SearchText(cell) == IF cell.formula THEN <<"=">> ELSE cell.text

MinOf(S) == CHOOSE x \in S : \A y \in S : x <= y

MaxOf(S) == CHOOSE x \in S : \A y \in S : y <= x

NonEmpty(cells) == {p \in DOMAIN cells : cells[p] # EmptyCell}

\* Worksheet.UsedRange: the bounding rectangle of the cells in use, A1 for a
\* blank sheet.
UsedRange(cells) ==
    LET ne == NonEmpty(cells)
    IN IF ne = {}
       THEN [top |-> 1, left |-> 1, bottom |-> 1, right |-> 1]
       ELSE [top    |-> MinOf({p[1] : p \in ne}),
             left   |-> MinOf({p[2] : p \in ne}),
             bottom |-> MaxOf({p[1] : p \in ne}),
             right  |-> MaxOf({p[2] : p \in ne})]

InRange(p, rng) ==
    /\ rng.top <= p[1] /\ p[1] <= rng.bottom
    /\ rng.left <= p[2] /\ p[2] <= rng.right

\* SearchOrder = xlByRows: p comes before q.
ByRowsLess(p, q) == p[1] < q[1] \/ (p[1] = q[1] /\ p[2] < q[2])

RECURSIVE SeqByRows(_)
SeqByRows(S) ==
    IF S = {} THEN <<>>
    ELSE LET m == CHOOSE p \in S : \A q \in S \ {p} : ByRowsLess(p, q)
         IN <<m>> \o SeqByRows(S \ {m})

\* The cells Range.Find(What, After, LookAt=xlPart, SearchOrder=xlByRows,
\* SearchDirection=xlNext, MatchCase=False) and then FindNext visit, in the
\* order they visit them: the search starts just after the After cell and
\* wraps around, so the After cell itself is visited last.  Find returns the
\* head (None for the empty sequence); FindNext moves on cyclically.
FindSeq(cells, rng, after, what) ==
    LET hits  == {p \in DOMAIN cells :
                    InRange(p, rng) /\ ContainsCI(SearchText(cells[p]), what)}
        later == {p \in hits : ByRowsLess(after, p)}
    IN SeqByRows(later) \o SeqByRows(hits \ later)

\* Without After the search starts after the upper-left cell of the range.
FindSeqInUsed(cells, what) ==
    FindSeq(cells, UsedRange(cells),
            <<UsedRange(cells).top, UsedRange(cells).left>>, what)

\* used.FindNext(cur) for cur = hits[i].
FindNextIx(hits, i) == (i % Len(hits)) + 1

RECURSIVE ReplaceFrom(_, _, _, _)
ReplaceFrom(s, what, repl, i) ==
    IF i > Len(s) THEN <<>>
    ELSE IF OccursAt(Lower(s), Lower(what), i)
    THEN repl \o ReplaceFrom(s, what, repl, i + Len(what))
    ELSE <<s[i]>> \o ReplaceFrom(s, what, repl, i + 1)

\* Only the first occurrence is replaced.
RECURSIVE ReplaceFirstFrom(_, _, _, _)
ReplaceFirstFrom(s, what, repl, i) ==
    IF i > Len(s) THEN <<>>
    ELSE IF OccursAt(Lower(s), Lower(what), i)
    THEN repl \o SubSeq(s, i + Len(what), Len(s))
    ELSE <<s[i]>> \o ReplaceFirstFrom(s, what, repl, i + 1)

ReplaceFirstCI(s, what, repl) == ReplaceFirstFrom(s, what, repl, 1)

\* The text Range.Replace(What, Replacement, LookAt=xlPart, MatchCase=False)
\* leaves in a cell: every occurrence, found left to right, is replaced.
ReplaceAllCI(s, what, repl) == ReplaceFrom(s, what, repl, 1)

RECURSIVE ReplaceFromCS(_, _, _, _)
ReplaceFromCS(s, what, repl, i) ==
    IF i > Len(s) THEN <<>>
    ELSE IF OccursAt(s, what, i)
    THEN repl \o ReplaceFromCS(s, what, repl, i + Len(what))
    ELSE <<s[i]>> \o ReplaceFromCS(s, what, repl, i + 1)

ReplaceCellMatchCase(cell) ==
    IF cell.formula THEN cell
    ELSE [cell EXCEPT !.text = ReplaceFromCS(cell.text, DDP, FOB, 1)]

\* ws.Cells.Replace(What="DDP", Replacement="FOB", ...) on one cell.
ReplaceCell(cell) ==
    IF cell.formula THEN cell
    ELSE [cell EXCEPT !.text = ReplaceAllCI(cell.text, DDP, FOB)]

(***************************************************************************)
(* The workbook: a sequence of worksheets [name, cells, shapes], in tab     *)
(* order.  Every sheet's cells are a function on Grid; a position outside   *)
(* Grid is a cell that is empty and stays empty.                            *)
(***************************************************************************)
\* The index of the first worksheet whose lower-cased name is lname, 0 when
\* there is none (the `for ws in xl_wb.Worksheets` scans).
FirstSheetNamed(book, lname) ==
    LET ix == {i \in 1..Len(book) : Lower(book[i].name) = lname}
    IN IF ix = {} THEN 0 ELSE MinOf(ix)

RemoveAt(seq, i) == SubSeq(seq, 1, i - 1) \o SubSeq(seq, i + 1, Len(seq))

DeleteCoverExactCase(book) ==
    LET ix == {i \in 1..Len(book) : book[i].name = COVER}
    IN IF ix = {} THEN book ELSE RemoveAt(book, MinOf(ix))

\* delete_cover_if_present: the workbook once the first sheet named "cover"
\* (any casing) is deleted.
DeleteCoverIfPresent(book) ==
    IF FirstSheetNamed(book, COVER) = 0 THEN book
    ELSE RemoveAt(book, FirstSheetNamed(book, COVER))

\* Worksheet.Delete raises when the sheet is the only one of the workbook.
DeleteCoverRaises(book) ==
    FirstSheetNamed(book, COVER) # 0 /\ Len(book) = 1

\* used.Value = used.Value on one sheet: every cell of the used range keeps
\* the value it shows and loses its formula.
ValuesOnly(cells) ==
    [p \in DOMAIN cells |-> [cells[p] EXCEPT !.formula = FALSE]]

ConvertNothing(book) == book

\* convert_all_used_ranges_to_values
ConvertAllUsedRangesToValues(book) ==
    [i \in 1..Len(book) |-> [book[i] EXCEPT !.cells = ValuesOnly(@)]]

\* get_ps_sheet: the index of the PS sheet, 0 for None.
GetPsSheet(book) == FirstSheetNamed(book, PS)

\* None, for a column index (columns are 1-based).
NONE == 0

\* The while loop of find_earliest_clear_start_col_for_ps: cur = hits[i],
\* m = min_col_plus3.
RECURSIVE EarliestLoop(_, _, _)
EarliestLoop(hits, i, m) ==
    LET j == FindNextIx(hits, i)
        candidate == hits[j][2] + 3
    IN IF j = 1 THEN m
       ELSE EarliestLoop(hits, j, IF candidate < m THEN candidate ELSE m)

EarliestWithoutOffset(cells) ==
    LET hits == FindSeqInUsed(cells, DDP)
    IN IF hits = <<>> THEN NONE
       ELSE MinOf({hits[k][2] : k \in 1..Len(hits)})

FirstMatchOnly(cells) ==
    LET hits == FindSeqInUsed(cells, DDP)
    IN IF hits = <<>> THEN NONE ELSE hits[1][2] + 3

\* find_earliest_clear_start_col_for_ps
FindEarliestClearStartColForPs(cells) ==
    LET hits == FindSeqInUsed(cells, DDP)
    IN IF hits = <<>> THEN NONE ELSE EarliestLoop(hits, 1, hits[1][2] + 3)

(***************************************************************************)
(* column_index_to_label, and the column a label names in a range address   *)
(***************************************************************************)
RECURSIVE LabelLoopZeroBased(_, _)
LabelLoopZeroBased(idx, label) ==
    IF idx > 0
    THEN LabelLoopZeroBased(idx \div 26, <<UpperChars[(idx % 26) + 1]>> \o label)
    ELSE label

RECURSIVE LabelLoop(_, _)
LabelLoop(idx, label) ==
    IF idx > 0
    THEN LabelLoop((idx - 1) \div 26, <<UpperChars[((idx - 1) % 26) + 1]>> \o label)
    ELSE label

ColumnIndexToLabel(idx) == LabelLoop(idx, <<>>)

LetterValue(ch) == CHOOSE i \in 1..26 : UpperChars[i] = ch

RECURSIVE LabelToIndex(_)
LabelToIndex(label) ==
    IF label = <<>> THEN 0
    ELSE 26 * LabelToIndex(SubSeq(label, 1, Len(label) - 1))
         + LetterValue(label[Len(label)])

XFD == <<"X","F","D">>

DefaultStartCol == 12

LastCol == 16384

ClearFromFixedL(cells, start_col_index) ==
    [p \in DOMAIN cells |->
        IF DefaultStartCol <= p[2] /\ p[2] <= LabelToIndex(XFD)
        THEN EmptyCell ELSE cells[p]]

\* clear_ps_columns_from_dynamic_start: the start column it settles on.
EffectiveStartCol(start_col_index) ==
    IF start_col_index = NONE \/ start_col_index < 1
    THEN DefaultStartCol ELSE start_col_index

\* clear_ps_columns_from_dynamic_start: the cells of PS after
\* ps_ws.Range(f"{col_label}:XFD").Clear().
ClearPsColumnsFromDynamicStart(cells, start_col_index) ==
    LET start == EffectiveStartCol(start_col_index)
    IN IF start > LastCol THEN cells
       ELSE [p \in DOMAIN cells |->
               IF /\ LabelToIndex(ColumnIndexToLabel(start)) <= p[2]
                  /\ p[2] <= LabelToIndex(XFD)
               THEN EmptyCell ELSE cells[p]]

(***************************************************************************)
(* replace_ddp_fob_and_normalize_fob_usa_all_sheets                         *)
(***************************************************************************)
\* Step 1 on one sheet: ws.Cells.Replace(What="DDP", Replacement="FOB", ...).
ReplaceDdpOnSheet(cells) == [p \in DOMAIN cells |-> ReplaceCell(cells[p])]

NeedsFixEither(cell) ==
    ContainsCI(cell.text, USA) \/ ContainsCI(cell.text, FOB)

\* The test of step 2 on a cell Find has returned: its value is a string that
\* holds both "usa" and "fob" once lower-cased.
NeedsFix(cell) ==
    ContainsCI(cell.text, USA) /\ ContainsCI(cell.text, FOB)

\* The while loop of step 2: cur = hits[i]; the result is cells_to_fix.
RECURSIVE CollectLoop(_, _, _, _)
CollectLoop(cells, hits, i, fix) ==
    LET fix2 == IF NeedsFix(cells[hits[i]]) THEN Append(fix, hits[i]) ELSE fix
        j    == FindNextIx(hits, i)
    IN IF j = 1 THEN fix2 ELSE CollectLoop(cells, hits, j, fix2)

CellsToFix(cells) ==
    LET hits == FindSeqInUsed(cells, FOB)
    IN IF hits = <<>> THEN <<>> ELSE CollectLoop(cells, hits, 1, <<>>)

\* Step 2 on one sheet: every collected address is set to "FOB, BUSAN PORT".
NormalizeFobUsaOnSheet(cells) ==
    LET fix == {CellsToFix(cells)[k] : k \in 1..Len(CellsToFix(cells))}
    IN [p \in DOMAIN cells |->
          IF p \in fix THEN [formula |-> FALSE, text |-> FOB_BUSAN_PORT]
          ELSE cells[p]]

\* Step 1, the first loop over the worksheets.
ReplaceDdpAllSheets(book) ==
    [i \in 1..Len(book) |-> [book[i] EXCEPT !.cells = ReplaceDdpOnSheet(@)]]

\* Step 2, the second loop over the worksheets.
NormalizeFobUsaAllSheets(book) ==
    [i \in 1..Len(book) |-> [book[i] EXCEPT !.cells = NormalizeFobUsaOnSheet(@)]]

ReplaceDdpFobAndNormalizeFobUsaAllSheets(book) ==
    NormalizeFobUsaAllSheets(ReplaceDdpAllSheets(book))

(***************************************************************************)
(* find_uppermost_match_across_workbook                                     *)
(***************************************************************************)
\* A match [ws, row, col]; ws = 0 is None.
NoMatch == [ws |-> 0, row |-> 0, col |-> 0]

RECURSIVE UppermostWalkByColumns(_, _, _, _)
UppermostWalkByColumns(hits, i, w, best) ==
    LET r  == hits[i][1]
        c  == hits[i][2]
        b2 == IF best = NoMatch \/ c < best.col \/ (c = best.col /\ r < best.row)
              THEN [ws |-> w, row |-> r, col |-> c] ELSE best
        j  == FindNextIx(hits, i)
    IN IF j = 1 THEN b2 ELSE UppermostWalkByColumns(hits, j, w, b2)

\* The inner while loop on sheet w: cur = hits[i].
RECURSIVE UppermostWalk(_, _, _, _)
UppermostWalk(hits, i, w, best) ==
    LET r  == hits[i][1]
        c  == hits[i][2]
        b2 == IF best = NoMatch \/ r < best.row \/ (r = best.row /\ c < best.col)
              THEN [ws |-> w, row |-> r, col |-> c] ELSE best
        j  == FindNextIx(hits, i)
    IN IF j = 1 THEN b2 ELSE UppermostWalk(hits, j, w, b2)

\* The for loop over the worksheets, from sheet w on.
RECURSIVE UppermostFrom(_, _, _, _)
UppermostFrom(book, needle, w, best) ==
    IF w > Len(book) THEN best
    ELSE LET hits == FindSeqInUsed(book[w].cells, needle)
         IN UppermostFrom(book, needle, w + 1,
                IF hits = <<>> THEN best ELSE UppermostWalk(hits, 1, w, best))

FindUppermostMatchAcrossWorkbook(book, needle) ==
    UppermostFrom(book, needle, 1, NoMatch)

\* Range.Clear() / a write to one cell of one sheet.
SetCell(book, w, p, cell) ==
    IF p \in DOMAIN book[w].cells
    THEN [book EXCEPT ![w].cells[p] = cell]
    ELSE book

(***************************************************************************)
(* find_next_occurrence_after_anchor                                        *)
(***************************************************************************)
\* The first hit of the other sheets, scanned in the order
\* sheets[start_ix+1:] + sheets[:start_ix]; order is that list of indices.
RECURSIVE FirstHitOnSheets(_, _, _)
FirstHitOnSheets(book, order, text) ==
    IF order = <<>> THEN NoMatch
    ELSE LET hits == FindSeqInUsed(book[Head(order)].cells, text)
         IN IF hits = <<>> THEN FirstHitOnSheets(book, Tail(order), text)
            ELSE [ws |-> Head(order), row |-> hits[1][1], col |-> hits[1][2]]

FindNextIncludingAnchor(book, text, anchor_ws, anchor_row, anchor_col) ==
    LET cells  == book[anchor_ws].cells
        used   == UsedRange(cells)
        anchor == <<anchor_row, anchor_col>>
        hits   == IF InRange(anchor, used)
                  THEN FindSeq(cells, used, anchor, text) ELSE <<>>
        order  == [k \in 1..(Len(book) - 1) |->
                     IF k <= Len(book) - anchor_ws THEN anchor_ws + k
                     ELSE k - (Len(book) - anchor_ws)]
    IN IF hits # <<>>
       THEN [ws |-> anchor_ws, row |-> hits[1][1], col |-> hits[1][2]]
       ELSE FirstHitOnSheets(book, order, text)

FindNextOccurrenceAfterAnchor(book, text, anchor_ws, anchor_row, anchor_col) ==
    LET cells  == book[anchor_ws].cells
        used   == UsedRange(cells)
        anchor == <<anchor_row, anchor_col>>
        \* Find raises when After is not a cell of the range: hit = None.
        hits   == IF InRange(anchor, used)
                  THEN FindSeq(cells, used, anchor, text) ELSE <<>>
        order  == [k \in 1..(Len(book) - 1) |->
                     IF k <= Len(book) - anchor_ws THEN anchor_ws + k
                     ELSE k - (Len(book) - anchor_ws)]
    IN IF hits # <<>> /\ hits[1] # anchor
       THEN [ws |-> anchor_ws, row |-> hits[1][1], col |-> hits[1][2]]
       ELSE FirstHitOnSheets(book, order, text)

\* found_ws.Cells(Rows.Count, col).End(xlUp).Row: the last row in use of the
\* column, 1 for a column with nothing in it.
LastUsedRow(cells, col) ==
    LET rows == {p[1] : p \in {q \in NonEmpty(cells) : q[2] = col}}
    IN IF rows = {} THEN 1 ELSE MaxOf(rows)

(***************************************************************************)
(* Shapes of the PS sheet: [Name, Left, Top, Width, Height, Locked]         *)
(***************************************************************************)
\* ps_ws.Range("A1").Left and .Top
SafeLeft == 0

SafeTop == 0

\* The spacing added below each relocated shape.
StackSpacing == 10

\* The operation on a shape that raises whenever it is tried: "fetch"
\* (Shapes.Item), "name" (reading Name), "props" (reading Left ... Locked),
\* "unlock" (writing Locked), "move" (writing Left, Top, Width, Height);
\* "none" for a shape without a Fault field.
Fault(shp) == IF "Fault" \in DOMAIN shp THEN shp.Fault ELSE "none"

\* The loop without the advance of y_cursor.
RECURSIVE SnapshotLoopNoStack(_, _, _, _)
SnapshotLoopNoStack(shapes, i, y, info) ==
    IF i > Len(shapes) THEN [shapes |-> shapes, info |-> info, raised |-> FALSE]
    ELSE LET shp      == shapes[i]
             unlocked == IF Fault(shp) = "unlock" THEN shp
                         ELSE [shp EXCEPT !.Locked = FALSE]
             moved    == [unlocked EXCEPT !.Left = SafeLeft, !.Top = y]
         IN IF Fault(shp) = "fetch"
            THEN [shapes |-> shapes, info |-> info, raised |-> TRUE]
            ELSE IF Fault(shp) \in {"name", "props"}
            THEN SnapshotLoopNoStack(shapes, i + 1, y, info)
            ELSE IF Fault(shp) = "move"
            THEN SnapshotLoopNoStack([shapes EXCEPT ![i] = unlocked], i + 1, y,
                                     Append(info, shp))
            ELSE SnapshotLoopNoStack([shapes EXCEPT ![i] = moved], i + 1, y,
                                     Append(info, shp))

\* The for loop of snapshot_and_move_shapes_to_safe_area from shape i on, with
\* y_cursor = y and shapes_info = info; the result is the shapes as moved, the
\* list returned, and whether an exception left the function: Shapes.Item(i)
\* is called outside the try block, everything after it inside.
RECURSIVE SnapshotLoop(_, _, _, _)
SnapshotLoop(shapes, i, y, info) ==
    IF i > Len(shapes) THEN [shapes |-> shapes, info |-> info, raised |-> FALSE]
    ELSE LET shp      == shapes[i]
             unlocked == IF Fault(shp) = "unlock" THEN shp
                         ELSE [shp EXCEPT !.Locked = FALSE]
             moved    == [unlocked EXCEPT !.Left = SafeLeft, !.Top = y]
         IN IF Fault(shp) = "fetch"
            THEN [shapes |-> shapes, info |-> info, raised |-> TRUE]
            ELSE IF Fault(shp) \in {"name", "props"}
            THEN SnapshotLoop(shapes, i + 1, y, info)
            ELSE IF Fault(shp) = "move"
            THEN SnapshotLoop([shapes EXCEPT ![i] = unlocked], i + 1, y,
                              Append(info, shp))
            ELSE SnapshotLoop([shapes EXCEPT ![i] = moved], i + 1,
                              y + shp.Height + StackSpacing, Append(info, shp))

SnapshotAndMoveShapesToSafeArea(shapes) == SnapshotLoop(shapes, 1, SafeTop, <<>>)

\* by_name = {s["Name"]: s for s in shapes_info}: a later entry replaces an
\* earlier one of the same name.
HasName(info, name) == \E k \in 1..Len(info) : info[k].Name = name

ByNameFirst(info, name) ==
    info[MinOf({k \in 1..Len(info) : info[k].Name = name})]

ByName(info, name) ==
    info[MaxOf({k \in 1..Len(info) : info[k].Name = name})]

\* The first shape at which restore_shapes raises, Len(shapes) + 1 when none:
\* shp = ps_ws.Shapes.Item(i) and name = shp.Name stand outside the try block.
RestoreStop(shapes) ==
    LET bad == {i \in 1..Len(shapes) : Fault(shapes[i]) \in {"fetch", "name"}}
    IN IF bad = {} THEN Len(shapes) + 1 ELSE MinOf(bad)

RestoreRaises(shapes) == RestoreStop(shapes) <= Len(shapes)

\* restore_shapes: the shapes as it leaves them
RestoreShapes(shapes, info) ==
    [i \in 1..Len(shapes) |->
        IF /\ i < RestoreStop(shapes)
           /\ HasName(info, shapes[i].Name)
           /\ Fault(shapes[i]) # "move"
        THEN LET meta == ByName(info, shapes[i].Name)
             IN [shapes[i] EXCEPT !.Left = meta.Left, !.Top = meta.Top,
                                  !.Width = meta.Width, !.Height = meta.Height,
                                  !.Locked = IF Fault(shapes[i]) = "unlock"
                                             THEN @ ELSE meta.Locked]
        ELSE shapes[i]]

(***************************************************************************)
(* The disk: a function from file names to the workbook each file holds.    *)
(* File names are compared without regard to case, as the file system the   *)
(* program runs on compares them.                                           *)
(***************************************************************************)
FileKey(name) == Lower(name)

FileExists(d, name) == FileKey(name) \in DOMAIN d

WriteFile(d, name, book) ==
    [k \in DOMAIN d \cup {FileKey(name)} |->
        IF k = FileKey(name) THEN book ELSE d[k]]

\* Excel FileFormat constants
XL_OPENXML_WORKBOOK == 51

XL_OPENXML_WORKBOOK_MACRO == 52

\* The SaveChanges argument of wb.Close in the finally clause.
CloseSavesChanges == TRUE

CloseSaveChanges == FALSE

(***************************************************************************)
(* State of one run of main() of ps2rfp_COM.py                               *)
(***************************************************************************)
VARIABLES
    pc,            \* the statement of main() to run next
    argName,       \* the file name of the path given to the program
    disk,          \* the files on disk
    src,           \* get_src_path(): the file name of the source path
    out,           \* rename_to_rfp(src): the file name of the output path
    excel,         \* the Excel process: "none", "running", "quit"
    wbOpen,        \* wb is not None
    wb,            \* the open workbook
    wbPath,        \* the file the open workbook is bound to
    ps_ws,         \* index of the PS sheet in wb, 0 for None
    dynamic_start, \* the start column computed in step 3a, NONE for None
    text_g4,       \* the text read from PS!G4
    found,         \* (found_ws, found_cell) as a match, NoMatch for (None, None)
    shapes_info,   \* the list snapshot_and_move_shapes_to_safe_area returned
    fileformat,    \* the FileFormat chosen for SaveAs
    raised,        \* sys.exit(1) is on its way out of main()
    exitCode,      \* the exit status of the process, -1 while it runs
    writes,        \* history: the file names written so far
    wb0            \* history: the workbook as the source file holds it

mainVars == <<pc, argName, disk, src, out, excel, wbOpen, wb, wbPath, ps_ws,
              dynamic_start, text_g4, found, shapes_info, fileformat, raised,
              exitCode, writes, wb0>>

\* State of one run of ps2rfp.py (the openpyxl variant, modelled further down)
VARIABLES
    opx_pc,        \* the statement of ps2rfp.main() to run next
    opx_wb,        \* wb
    opx_wb_vals,   \* wb_vals
    opx_runs       \* how many times freeze_to_values has run

opxVars == <<opx_pc, opx_wb, opx_wb_vals, opx_runs>>

vars == <<mainVars, opxVars>>

G4 == <<4, 7>>

(***************************************************************************)
(* main(): one action per statement group, in program order                 *)
(***************************************************************************)
GetSrcPathCaseSensitive ==
    /\ pc = "get_src_path"
    /\ IF ~FileExists(disk, argName)
       THEN pc' = "exited" /\ exitCode' = 1 /\ src' = src
       ELSE IF Suffix(argName) \notin {DOT_XLSX, DOT_XLSM}
       THEN pc' = "exited" /\ exitCode' = 1 /\ src' = src
       ELSE pc' = "rename" /\ exitCode' = exitCode /\ src' = argName
    /\ UNCHANGED <<argName, disk, out, excel, wbOpen, wb, wbPath, ps_ws,
                   dynamic_start, text_g4, found, shapes_info, fileformat,
                   raised, writes, wb0, opxVars>>

\* src = get_src_path()
GetSrcPath ==
    /\ pc = "get_src_path"
    /\ IF ~FileExists(disk, argName)
       THEN pc' = "exited" /\ exitCode' = 1 /\ src' = src
       ELSE IF Lower(Suffix(argName)) \notin {DOT_XLSX, DOT_XLSM}
       THEN pc' = "exited" /\ exitCode' = 1 /\ src' = src
       ELSE pc' = "rename" /\ exitCode' = exitCode /\ src' = argName
    /\ UNCHANGED <<argName, disk, out, excel, wbOpen, wb, wbPath, ps_ws,
                   dynamic_start, text_g4, found, shapes_info, fileformat,
                   raised, writes, wb0, opxVars>>

\* out = rename_to_rfp(src)
Rename ==
    /\ pc = "rename"
    /\ out' = RenameToRfp(src)
    /\ pc' = "dispatch"
    /\ UNCHANGED <<argName, disk, src, excel, wbOpen, wb, wbPath, ps_ws,
                   dynamic_start, text_g4, found, shapes_info, fileformat,
                   raised, exitCode, writes, wb0, opxVars>>

\* excel = win32.DispatchEx("Excel.Application"); ...; wb = None
DispatchExcel ==
    /\ pc = "dispatch"
    /\ excel' = "running"
    /\ pc' = "open"
    /\ UNCHANGED <<argName, disk, src, out, wbOpen, wb, wbPath, ps_ws,
                   dynamic_start, text_g4, found, shapes_info, fileformat,
                   raised, exitCode, writes, wb0, opxVars>>

OpenWorkbookMacrosCaseSensitive ==
    /\ pc = "open"
    /\ fileformat' = IF Suffix(src) = DOT_XLSM
                     THEN XL_OPENXML_WORKBOOK_MACRO ELSE XL_OPENXML_WORKBOOK
    /\ \E opened \in BOOLEAN :
         IF opened
         THEN /\ wb' = disk[FileKey(src)]
              /\ wbOpen' = TRUE
              /\ wbPath' = src
              /\ raised' = raised
              /\ pc' = "delete_cover"
         ELSE /\ raised' = TRUE
              /\ pc' = "finally_close"
              /\ UNCHANGED <<wb, wbOpen, wbPath>>
    /\ UNCHANGED <<argName, disk, src, out, excel, ps_ws, dynamic_start,
                   text_g4, found, shapes_info, exitCode, writes, wb0, opxVars>>

\* keep_macros, fileformat; wb = excel.Workbooks.Open(str(src)).  Open may
\* raise: the except clause then calls sys.exit(1) with wb still None.
OpenWorkbook ==
    /\ pc = "open"
    /\ fileformat' = IF Lower(Suffix(src)) = DOT_XLSM
                     THEN XL_OPENXML_WORKBOOK_MACRO ELSE XL_OPENXML_WORKBOOK
    /\ \E opened \in BOOLEAN :
         IF opened
         THEN /\ wb' = disk[FileKey(src)]
              /\ wbOpen' = TRUE
              /\ wbPath' = src
              /\ raised' = raised
              /\ pc' = "delete_cover"
         ELSE /\ raised' = TRUE
              /\ pc' = "finally_close"
              /\ UNCHANGED <<wb, wbOpen, wbPath>>
    /\ UNCHANGED <<argName, disk, src, out, excel, ps_ws, dynamic_start,
                   text_g4, found, shapes_info, exitCode, writes, wb0, opxVars>>

\* 1) delete_cover_if_present(wb)
DeleteCover ==
    /\ pc = "delete_cover"
    /\ IF DeleteCoverRaises(wb)
       THEN raised' = TRUE /\ pc' = "finally_close" /\ wb' = wb
       ELSE raised' = raised /\ pc' = "freeze" /\ wb' = DeleteCoverIfPresent(wb)
    /\ UNCHANGED <<argName, disk, src, out, excel, wbOpen, wbPath, ps_ws,
                   dynamic_start, text_g4, found, shapes_info, fileformat,
                   exitCode, writes, wb0, opxVars>>

\* 2) convert_all_used_ranges_to_values(wb)
ConvertToValues ==
    /\ pc = "freeze"
    /\ wb' = ConvertAllUsedRangesToValues(wb)
    /\ pc' = "get_ps"
    /\ UNCHANGED <<argName, disk, src, out, excel, wbOpen, wbPath, ps_ws,
                   dynamic_start, text_g4, found, shapes_info, fileformat,
                   raised, exitCode, writes, wb0, opxVars>>

FindPsSheetNotFatal ==
    /\ pc = "get_ps"
    /\ ps_ws' = GetPsSheet(wb)
    /\ pc' = IF GetPsSheet(wb) = 0 THEN "saveas" ELSE "find_start"
    /\ UNCHANGED <<argName, disk, src, out, excel, wbOpen, wb, wbPath,
                   dynamic_start, text_g4, found, shapes_info, fileformat,
                   raised, exitCode, writes, wb0, opxVars>>

\* 3a) ps_ws = get_ps_sheet(wb); sys.exit(1) when it is None
FindPsSheet ==
    /\ pc = "get_ps"
    /\ ps_ws' = GetPsSheet(wb)
    /\ IF GetPsSheet(wb) = 0
       THEN raised' = TRUE /\ pc' = "finally_close"
       ELSE raised' = raised /\ pc' = "find_start"
    /\ UNCHANGED <<argName, disk, src, out, excel, wbOpen, wb, wbPath,
                   dynamic_start, text_g4, found, shapes_info, fileformat,
                   exitCode, writes, wb0, opxVars>>

ComputeStartAfterReplace ==
    /\ pc = "find_start"
    /\ dynamic_start' = FindEarliestClearStartColForPs(
            ReplaceDdpFobAndNormalizeFobUsaAllSheets(wb)[ps_ws].cells)
    /\ pc' = "replace"
    /\ UNCHANGED <<argName, disk, src, out, excel, wbOpen, wb, wbPath, ps_ws,
                   text_g4, found, shapes_info, fileformat, raised, exitCode,
                   writes, wb0, opxVars>>

\* 3a) dynamic_start = find_earliest_clear_start_col_for_ps(ps_ws)
ComputeStart ==
    /\ pc = "find_start"
    /\ dynamic_start' = FindEarliestClearStartColForPs(wb[ps_ws].cells)
    /\ pc' = "replace"
    /\ UNCHANGED <<argName, disk, src, out, excel, wbOpen, wb, wbPath, ps_ws,
                   text_g4, found, shapes_info, fileformat, raised, exitCode,
                   writes, wb0, opxVars>>

\* 3b) replace_ddp_fob_and_normalize_fob_usa_all_sheets(wb)
ReplaceAndNormalize ==
    /\ pc = "replace"
    /\ wb' = ReplaceDdpFobAndNormalizeFobUsaAllSheets(wb)
    /\ pc' = "uppermost"
    /\ UNCHANGED <<argName, disk, src, out, excel, wbOpen, wbPath, ps_ws,
                   dynamic_start, text_g4, found, shapes_info, fileformat,
                   raised, exitCode, writes, wb0, opxVars>>

\* A) best = find_uppermost_match_across_workbook(wb, "FOB"); the cell right
\* below it is cleared.
ClearBelowUppermost ==
    /\ pc = "uppermost"
    /\ LET best == FindUppermostMatchAcrossWorkbook(wb, FOB)
       IN wb' = IF best = NoMatch THEN wb
                ELSE SetCell(wb, best.ws, <<best.row + 1, best.col>>, EmptyCell)
    /\ pc' = "read_g4"
    /\ UNCHANGED <<argName, disk, src, out, excel, wbOpen, wbPath, ps_ws,
                   dynamic_start, text_g4, found, shapes_info, fileformat,
                   raised, exitCode, writes, wb0, opxVars>>

\* B) text_g4 = ps_ws.Range("G4").Text, its Value when the text is blank; the
\* empty text stands for None as well (both skip step C).
ReadG4 ==
    /\ pc = "read_g4"
    /\ text_g4' = IF G4 \in DOMAIN wb[ps_ws].cells
                  THEN wb[ps_ws].cells[G4].text ELSE <<>>
    /\ pc' = "find_next"
    /\ UNCHANGED <<argName, disk, src, out, excel, wbOpen, wb, wbPath, ps_ws,
                   dynamic_start, found, shapes_info, fileformat, raised,
                   exitCode, writes, wb0, opxVars>>

\* C) find_next_occurrence_after_anchor(wb, str(text_g4), ps_ws, 4, 7) unless
\* text_g4 is None or blank
FindNextOccurrence ==
    /\ pc = "find_next"
    /\ found' = IF IsBlank(text_g4) THEN NoMatch
                ELSE FindNextOccurrenceAfterAnchor(wb, text_g4, ps_ws, G4[1], G4[2])
    /\ pc' = "clear_col"
    /\ UNCHANGED <<argName, disk, src, out, excel, wbOpen, wb, wbPath, ps_ws,
                   dynamic_start, text_g4, shapes_info, fileformat, raised,
                   exitCode, writes, wb0, opxVars>>

\* D) the range from row found.Row + 6 to the last used row of the found
\* column is built; the statement `rng.ClearContents` then names the method
\* without calling it, and no cell changes.
ClearColumnBelowFound ==
    /\ pc = "clear_col"
    /\ pc' = "snapshot"
    /\ UNCHANGED <<argName, disk, src, out, excel, wbOpen, wb, wbPath, ps_ws,
                   dynamic_start, text_g4, found, shapes_info, fileformat,
                   raised, exitCode, writes, wb0, opxVars>>

\* 4) shapes_info = snapshot_and_move_shapes_to_safe_area(ps_ws)
SnapshotAndMove ==
    /\ pc = "snapshot"
    /\ LET r == SnapshotAndMoveShapesToSafeArea(wb[ps_ws].shapes)
       IN /\ wb' = [wb EXCEPT ![ps_ws].shapes = r.shapes]
          /\ IF r.raised
             THEN raised' = TRUE /\ pc' = "finally_close" /\ shapes_info' = shapes_info
             ELSE raised' = raised /\ pc' = "clear_ps" /\ shapes_info' = r.info
    /\ UNCHANGED <<argName, disk, src, out, excel, wbOpen, wbPath, ps_ws,
                   dynamic_start, text_g4, found, fileformat, exitCode,
                   writes, wb0, opxVars>>

\* clear_ps_columns_from_dynamic_start(ps_ws, dynamic_start)
ClearPsColumns ==
    /\ pc = "clear_ps"
    /\ wb' = [wb EXCEPT ![ps_ws].cells =
                  ClearPsColumnsFromDynamicStart(@, dynamic_start)]
    /\ pc' = "restore"
    /\ UNCHANGED <<argName, disk, src, out, excel, wbOpen, wbPath, ps_ws,
                   dynamic_start, text_g4, found, shapes_info, fileformat,
                   raised, exitCode, writes, wb0, opxVars>>

\* restore_shapes(ps_ws, shapes_info)
Restore ==
    /\ pc = "restore"
    /\ wb' = [wb EXCEPT ![ps_ws].shapes = RestoreShapes(@, shapes_info)]
    /\ IF RestoreRaises(wb[ps_ws].shapes)
       THEN raised' = TRUE /\ pc' = "finally_close"
       ELSE raised' = raised /\ pc' = "saveas"
    /\ UNCHANGED <<argName, disk, src, out, excel, wbOpen, wbPath, ps_ws,
                   dynamic_start, text_g4, found, shapes_info, fileformat,
                   exitCode, writes, wb0, opxVars>>

SaveAsFailureSwallowed ==
    /\ pc = "saveas"
    /\ \E saved \in BOOLEAN :
         IF saved
         THEN /\ disk' = WriteFile(disk, out, wb)
              /\ writes' = Append(writes, out)
              /\ wbPath' = out
         ELSE UNCHANGED <<disk, writes, wbPath>>
    /\ raised' = raised
    /\ pc' = "finally_close"
    /\ UNCHANGED <<argName, src, out, excel, wbOpen, wb, ps_ws, dynamic_start,
                   text_g4, found, shapes_info, fileformat, exitCode, wb0, opxVars>>

\* 5) wb.SaveAs(Filename=str(out), FileFormat=fileformat).  SaveAs may raise:
\* the except clause then calls sys.exit(1).
SaveAs ==
    /\ pc = "saveas"
    /\ \E saved \in BOOLEAN :
         IF saved
         THEN /\ disk' = WriteFile(disk, out, wb)
              /\ writes' = Append(writes, out)
              /\ wbPath' = out
              /\ raised' = raised
         ELSE /\ raised' = TRUE
              /\ UNCHANGED <<disk, writes, wbPath>>
    /\ pc' = "finally_close"
    /\ UNCHANGED <<argName, src, out, excel, wbOpen, wb, ps_ws, dynamic_start,
                   text_g4, found, shapes_info, fileformat, exitCode, wb0, opxVars>>

\* finally: if wb is not None: wb.Close(SaveChanges=False).  Close may raise:
\* the exception then leaves the finally clause and main(), the statements
\* after it are not reached and the process ends with status 1.
FinallyClose ==
    /\ pc = "finally_close"
    /\ IF wbOpen
       THEN \E closed \in BOOLEAN :
              IF closed
              THEN /\ wbOpen' = FALSE
                   /\ IF CloseSaveChanges
                      THEN /\ disk' = WriteFile(disk, wbPath, wb)
                           /\ writes' = Append(writes, wbPath)
                      ELSE UNCHANGED <<disk, writes>>
                   /\ pc' = "finally_quit"
                   /\ UNCHANGED <<raised, exitCode>>
              ELSE /\ raised' = TRUE
                   /\ exitCode' = 1
                   /\ pc' = "exited"
                   /\ UNCHANGED <<wbOpen, disk, writes>>
       ELSE /\ pc' = "finally_quit"
            /\ UNCHANGED <<wbOpen, disk, writes, raised, exitCode>>
    /\ UNCHANGED <<argName, src, out, excel, wb, wbPath, ps_ws, dynamic_start,
                   text_g4, found, shapes_info, fileformat, wb0, opxVars>>

\* finally: excel.Quit(); the process then ends, with status 1 when
\* sys.exit(1) was raised in the try block.
FinallyQuit ==
    /\ pc = "finally_quit"
    /\ excel' = "quit"
    /\ exitCode' = IF raised THEN 1 ELSE 0
    /\ pc' = "exited"
    /\ UNCHANGED <<argName, disk, src, out, wbOpen, wb, wbPath, ps_ws,
                   dynamic_start, text_g4, found, shapes_info, fileformat,
                   raised, writes, wb0, opxVars>>

Next ==
    \/ GetSrcPath
    \/ Rename
    \/ DispatchExcel
    \/ OpenWorkbook
    \/ DeleteCover
    \/ ConvertToValues
    \/ FindPsSheet
    \/ ComputeStart
    \/ ReplaceAndNormalize
    \/ ClearBelowUppermost
    \/ ReadG4
    \/ FindNextOccurrence
    \/ ClearColumnBelowFound
    \/ SnapshotAndMove
    \/ ClearPsColumns
    \/ Restore
    \/ SaveAs
    \/ FinallyClose
    \/ FinallyQuit

(***************************************************************************)
(* ps2rfp.py, the openpyxl variant: the COVER deletion of its main() and    *)
(* freeze_to_values.  wb is the workbook loaded with data_only=False, wb_vals *)
(* the same file loaded with data_only=True.  A cell is [merged, value]:    *)
(* merged marks a MergedCell (a member of a merged range other than its     *)
(* top-left cell), value is the cell's value, the empty text for None and a *)
(* text starting with "=" for a formula.                                    *)
(***************************************************************************)
OpxNone == <<>>

SheetNames(book) == [i \in 1..Len(book) |-> book[i].name]

SheetIndex(book, name) == CHOOSE i \in 1..Len(book) : book[i].name = name

InSheetNames(book, name) == \E i \in 1..Len(book) : book[i].name = name

\* next((n for n in wb.sheetnames if n.casefold() == "cover"), None) and
\* del wb[cover_name]
OpxDeleteCoverSheet(book) ==
    IF FirstSheetNamed(book, COVER) = 0 THEN book
    ELSE RemoveAt(book, FirstSheetNamed(book, COVER))

\* Worksheet.max_row / max_column: the largest row / column holding a cell,
\* 1 for a sheet with none.
OpxMaxRow(cells) ==
    LET held == {p \in DOMAIN cells : cells[p].merged \/ cells[p].value # OpxNone}
    IN IF held = {} THEN 1 ELSE MaxOf({p[1] : p \in held})

OpxMaxColumn(cells) ==
    LET held == {p \in DOMAIN cells : cells[p].merged \/ cells[p].value # OpxNone}
    IN IF held = {} THEN 1 ELSE MaxOf({p[2] : p \in held})

FreezeSheetWritingNone(main, vals) ==
    [p \in DOMAIN main |->
        IF main[p].merged THEN main[p]
        ELSE [main[p] EXCEPT !.value = vals[p].value]]

\* The two inner loops of freeze_to_values on one sheet.
FreezeSheet(main, vals) ==
    LET mr == MaxOf({OpxMaxRow(main), OpxMaxRow(vals)})
        mc == MaxOf({OpxMaxColumn(main), OpxMaxColumn(vals)})
    IN [p \in DOMAIN main |->
          IF p[1] > mr \/ p[2] > mc THEN main[p]
          ELSE IF main[p].merged THEN main[p]
          ELSE IF vals[p].value # OpxNone
          THEN [main[p] EXCEPT !.value = vals[p].value]
          ELSE main[p]]

\* freeze_to_values(wb, wb_vals)
FreezeToValues(book, book_vals) ==
    [i \in 1..Len(book) |->
        IF ~InSheetNames(book_vals, book[i].name) THEN book[i]
        ELSE [book[i] EXCEPT !.cells =
                 FreezeSheet(@, book_vals[SheetIndex(book_vals, book[i].name)].cells)]]

MaxFreezeRuns == 2

\* 1) Delete COVER (case-insensitive)
OpxDeleteCover ==
    /\ opx_pc = "delete_cover"
    /\ opx_wb' = OpxDeleteCoverSheet(opx_wb)
    /\ opx_pc' = "freeze"
    /\ UNCHANGED <<opx_wb_vals, opx_runs, mainVars>>

\* 2) freeze_to_values(wb, wb_vals); the step may be taken again on its own
\* result, up to MaxFreezeRuns times in all.
OpxFreeze ==
    /\ opx_pc = "freeze"
    /\ opx_runs < MaxFreezeRuns
    /\ opx_wb' = FreezeToValues(opx_wb, opx_wb_vals)
    /\ opx_runs' = opx_runs + 1
    /\ UNCHANGED <<opx_pc, opx_wb_vals, mainVars>>

NextOpx ==
    \/ OpxDeleteCover
    \/ OpxFreeze

(***************************************************************************)
(* Inputs                                                                   *)
(***************************************************************************)
Const(text) == [formula |-> FALSE, text |-> text]

Formula(text) == [formula |-> TRUE, text |-> text]

T_DdpTwice == <<"D","D","P","x","D","d","p">>
T_DdpUsa == <<"a"," ","d","d","P"," ","U","S","A">>
T_X == <<"x">>
T_FobBusan == <<"F","o","b"," ","B","U","S","A","N">>

\* The cells a varied position of a sheet is drawn from: the first
\* NumCellInputs entries.
CellInputs ==
    <<EmptyCell, Const(T_DdpTwice), Const(T_DdpUsa), Const(FOB), Formula(DDP),
      Const(USA), Const(T_FobBusan)>>

NumCellInputs == 5

CellChoices == {CellInputs[k] : k \in 1..NumCellInputs}

DataChoices == {EmptyCell, Const(T_DdpUsa), Const(FOB)}

\* The positions of a sheet the model follows.
Grid == {<<2, 5>>, <<3, 3>>, <<4, 7>>, <<5, 7>>, <<4, 12>>}

\* The cells of a sheet holding `given` (a function on some positions of Grid)
\* and nothing else.
MkCells(given) ==
    [p \in Grid |-> IF p \in DOMAIN given THEN given[p] ELSE EmptyCell]

Sheet(name, cells, shapes) == [name |-> name, cells |-> cells, shapes |-> shapes]

NM_PS == <<"P","S">>
NM_Ps == <<"P","s">>
NM_COVER == <<"C","O","V","E","R">>
NM_Cover == <<"C","o","v","e","r">>
NM_BOM == <<"B","O","M">>

OneShape ==
    <<[Name |-> "Picture 1", Left |-> 40, Top |-> 30, Width |-> 20,
       Height |-> 15, Locked |-> TRUE]>>

PsSheets(name) ==
    {Sheet(name,
           MkCells(<<2, 5>> :> a @@ <<3, 3>> :> b @@ <<4, 7>> :> c @@ <<4, 12>> :> d),
           OneShape) :
        a \in CellChoices, b \in CellChoices, c \in CellChoices,
        d \in {EmptyCell, Const(T_X)}}

DataSheets == {Sheet(NM_BOM, MkCells(<<4, 7>> :> a), <<>>) : a \in DataChoices}

CoverSheet(name) == Sheet(name, MkCells(<<3, 3>> :> Const(T_DdpUsa)), <<>>)

\* Workbooks varied in their cells and in where (and whether) COVER and PS
\* are.
BooksCells ==
    {<<p, d>> : p \in PsSheets(NM_PS), d \in DataSheets}
    \cup {<<CoverSheet(NM_COVER), p, d>> : p \in PsSheets(NM_PS), d \in DataSheets}
    \cup {<<p, d, CoverSheet(NM_Cover)>> : p \in PsSheets(NM_Ps), d \in DataSheets}
    \cup {<<d, CoverSheet(NM_Cover)>> : d \in DataSheets}
    \cup {<<CoverSheet(NM_COVER)>>}

ExampleName ==
    <<"2","5","0","8","2","6"," ","P","S","-","U","S","A","-","2","4","4","4"," ",
      "E","G","L","I","N","T","O","N"," ","P","J","T","-","A",".","x","l","s","m">>

(***************************************************************************)
(* Initial states and specifications                                        *)
(***************************************************************************)
\* main() is about to start on the path `name`, which holds `book` if it
\* exists.
InitMain(book, name, exists) ==
    /\ pc = "get_src_path"
    /\ argName = name
    /\ disk = IF exists THEN FileKey(name) :> book ELSE <<>>
    /\ src = <<>>
    /\ out = <<>>
    /\ excel = "none"
    /\ wbOpen = FALSE
    /\ wb = <<>>
    /\ wbPath = <<>>
    /\ ps_ws = 0
    /\ dynamic_start = NONE
    /\ text_g4 = <<>>
    /\ found = NoMatch
    /\ shapes_info = <<>>
    /\ fileformat = 0
    /\ raised = FALSE
    /\ exitCode = -1
    /\ writes = <<>>
    /\ wb0 = book

OpxIdle ==
    /\ opx_pc = "idle"
    /\ opx_wb = <<>>
    /\ opx_wb_vals = <<>>
    /\ opx_runs = 0

\* Runs of ps2rfp_COM.main() over workbooks varied in their cells and sheets.
Init ==
    /\ \E book \in BooksCells : InitMain(book, ExampleName, TRUE)
    /\ OpxIdle

Spec == Init /\ [][Next]_vars

(***************************************************************************)
(* Runs over file names                                                     *)
(***************************************************************************)
DateParts ==
    {<<"2","5","0","8","2","6">>, <<"2","5","0","8","2">>, <<>>,
     <<"2","5","0","8","2","6","1">>}

SepParts == {<<>>, <<" ">>, <<"\t">>, <<" "," ">>}

TokenParts ==
    {<<"P","S","-">>, <<"p","s","-">>, <<"P","s","-">>, <<"P","S">>,
     <<"R","F","P","-">>, <<"r","f","p","-">>, <<>>}

\* The rests of a name: the first NumNameRests entries.
NameRests ==
    <<<<"A">>, <<>>, <<"x","R","f","P","-","y",".","v","2">>,
      <<"U","S","A"," ","P","S","-","B">>>>

NumNameRests == 3

ExtParts ==
    {<<".","x","l","s","x">>, <<".","x","l","s","m">>, <<".","X","L","S","M">>,
     <<".","x","l","s">>, <<>>}

FileNames ==
    {d \o s \o t \o NameRests[r] \o e :
        d \in DateParts, s \in SepParts, t \in TokenParts,
        r \in 1..NumNameRests, e \in ExtParts}
    \cup {ExampleName}

SmallBook ==
    <<CoverSheet(NM_COVER),
      Sheet(NM_PS, MkCells(<<4, 7>> :> Const(T_DdpUsa) @@ <<4, 12>> :> Const(T_X)),
            OneShape)>>

\* Runs of ps2rfp_COM.main() over file names, existing or not.
NoPsBook == <<Sheet(NM_BOM, MkCells(<<4, 7>> :> Const(T_DdpUsa)), <<>>)>>

InitFiles ==
    /\ \E name \in FileNames, exists \in BOOLEAN, book \in {SmallBook, NoPsBook} :
          InitMain(book, name, exists)
    /\ OpxIdle

SpecFiles == InitFiles /\ [][Next]_vars

(***************************************************************************)
(* Runs over the shapes of the PS sheet                                     *)
(***************************************************************************)
ShapeNames == {"Picture 1", "Picture 2"}

ShapePlaces == {<<40, 30>>, <<120, 90>>}

ShapeSizes == {<<20, 15>>, <<30, 25>>}

ShapeInputs ==
    {[Name |-> n, Left |-> at[1], Top |-> at[2], Width |-> sz[1],
      Height |-> sz[2], Locked |-> l] :
        n \in ShapeNames, at \in ShapePlaces, sz \in ShapeSizes, l \in BOOLEAN}

MaxShapes == 2

ShapeLists == UNION {[1..n -> ShapeInputs] : n \in 0..MaxShapes}

BooksShapes ==
    {<<Sheet(NM_PS, MkCells(<<4, 7>> :> Const(T_DdpUsa) @@ <<4, 12>> :> Const(T_X)),
             shapes),
       Sheet(NM_BOM, MkCells(<<2, 5>> :> Const(FOB)), <<>>)>> :
        shapes \in ShapeLists}

\* Runs of ps2rfp_COM.main() over workbooks varied in the shapes of PS.
InitShapes ==
    /\ \E book \in BooksShapes : InitMain(book, ExampleName, TRUE)
    /\ OpxIdle

SpecShapes == InitShapes /\ [][Next]_vars

(***************************************************************************)
(* Runs of the openpyxl variant                                             *)
(***************************************************************************)
OpxCell(merged, value) == [merged |-> merged, value |-> value]

T_Formula == <<"=","A","1","*","2">>
T_Formula2 == <<"=","B","1">>
T_7 == <<"7">>

\* A cell as the two loads of one file see it: [main, vals].  A constant is
\* its own value; a formula has the value the file caches for it, or none; a
\* MergedCell holds None in both.
OpxCellInputs ==
    {[main |-> OpxCell(FALSE, OpxNone),    vals |-> OpxCell(FALSE, OpxNone)],
     [main |-> OpxCell(FALSE, T_X),        vals |-> OpxCell(FALSE, T_X)],
     [main |-> OpxCell(FALSE, T_Formula),  vals |-> OpxCell(FALSE, T_7)],
     [main |-> OpxCell(FALSE, T_Formula2), vals |-> OpxCell(FALSE, OpxNone)],
     [main |-> OpxCell(TRUE, OpxNone),     vals |-> OpxCell(TRUE, OpxNone)]}

OpxGrid == {<<1, 1>>, <<1, 2>>, <<2, 1>>}

OpxSheetInputs == [OpxGrid -> OpxCellInputs]

OpxMain(name, given) ==
    [name |-> name, cells |-> [p \in OpxGrid |-> given[p].main]]

OpxVals(name, given) ==
    [name |-> name, cells |-> [p \in OpxGrid |-> given[p].vals]]

OpxCoverGiven ==
    [p \in OpxGrid |-> [main |-> OpxCell(FALSE, T_Formula), vals |-> OpxCell(FALSE, T_7)]]

\* ps2rfp_COM.main() is not running.
MainIdle ==
    /\ pc = "idle"
    /\ argName = <<>>
    /\ disk = <<>>
    /\ src = <<>>
    /\ out = <<>>
    /\ excel = "none"
    /\ wbOpen = FALSE
    /\ wb = <<>>
    /\ wbPath = <<>>
    /\ ps_ws = 0
    /\ dynamic_start = NONE
    /\ text_g4 = <<>>
    /\ found = NoMatch
    /\ shapes_info = <<>>
    /\ fileformat = 0
    /\ raised = FALSE
    /\ exitCode = -1
    /\ writes = <<>>
    /\ wb0 = <<>>

\* ps2rfp.main() has loaded wb and wb_vals from one file.
InitOpx ==
    /\ \E given \in OpxSheetInputs, cover \in {0, 1, 2} :
         /\ opx_wb = IF cover = 0 THEN <<OpxMain(NM_PS, given)>>
                     ELSE IF cover = 1
                     THEN <<OpxMain(NM_Cover, OpxCoverGiven), OpxMain(NM_PS, given)>>
                     ELSE <<OpxMain(NM_PS, given), OpxMain(NM_COVER, OpxCoverGiven)>>
         /\ opx_wb_vals = IF cover = 0 THEN <<OpxVals(NM_PS, given)>>
                     ELSE IF cover = 1
                     THEN <<OpxVals(NM_Cover, OpxCoverGiven), OpxVals(NM_PS, given)>>
                     ELSE <<OpxVals(NM_PS, given), OpxVals(NM_COVER, OpxCoverGiven)>>
    /\ opx_pc = "delete_cover"
    /\ opx_runs = 0
    /\ MainIdle

SpecOpx == InitOpx /\ [][NextOpx]_vars

(***************************************************************************)
(* Properties                                                               *)
(***************************************************************************)
\* The cells of the PS sheet as the source file holds them.
OrigPsCells == wb0[FirstSheetNamed(wb0, PS)].cells

\* The columns of the cells whose text holds "DDP" in any casing.
DdpCols(cells) ==
    {p[2] : p \in {q \in DOMAIN cells : ContainsCI(cells[q].text, DDP)}}

\* The start column the documents ask for: the least match column + 3, the
\* default L without a match.
ExpectedStartCol(cells) ==
    IF DdpCols(cells) = {} THEN 12
    ELSE MinOf({c + 3 : c \in DdpCols(cells)})

\* b is a with every occurrence of "DDP" (any casing) turned into "FOB" and
\* every other character left where and as it was.  Occurrences of "DDP"
\* cannot overlap one another, and "FOB" is as long as "DDP".
SubstitutedIn(a, b) ==
    /\ Len(b) = Len(a)
    /\ \A k \in 1..Len(a) :
         LET starts == {j \in (k - 2)..k : OccursAt(Lower(a), Lower(DDP), j)}
         IN IF starts = {} THEN b[k] = a[k]
            ELSE \A j \in starts : b[k] = FOB[k - j + 1]

\* The shapes of the PS sheet as the source file holds them.
OrigShapes == wb0[FirstSheetNamed(wb0, PS)].shapes

\* C1: Stage 6 round trip: after relocate -> clear -> restore every shape that
\* was on the PS sheet before the snapshot is still there with exactly the
\* Name, Left, Top, Width, Height and Locked it had before stage 6.
C1_ShapesRoundTrip ==
    pc = "saveas" =>
        /\ Len(wb[ps_ws].shapes) = Len(OrigShapes)
        /\ \A i \in 1..Len(OrigShapes) : wb[ps_ws].shapes[i] = OrigShapes[i]

\* C2: the start column the bulk clear on PS uses is the least (column + 3)
\* over the PS cells whose text holds "DDP" in any casing (a single marker in
\* column G gives J = 10), and the default 12 (L) when PS has no such cell; the
\* clear then empties every PS cell from that column on.
C2_StartColumnIsMinimum ==
    /\ pc = "clear_ps" =>
          EffectiveStartCol(dynamic_start) = ExpectedStartCol(OrigPsCells)
    /\ pc = "restore" =>
          \A p \in DOMAIN wb[ps_ws].cells :
              p[2] >= ExpectedStartCol(OrigPsCells) => wb[ps_ws].cells[p] = EmptyCell
    /\ (pc = "clear_ps" /\ DdpCols(OrigPsCells) = {7}) =>
          EffectiveStartCol(dynamic_start) = 10

\* C2 witness: the bulk clear is about to run on a PS sheet with markers in
\* two different columns, the leftmost of which Find does not meet first.
C2_Witness ==
    /\ pc = "clear_ps"
    /\ DdpCols(OrigPsCells) = {3, 5}
    /\ dynamic_start = 6

\* C3: in every run the start column is computed after the value freeze and
\* before the rewrite changes any cell, so from the original "DDP"
\* occurrences; no later step alters it, and the bulk clear clears from it.
C3_StartComputedBeforeRewrite ==
    [][ /\ pc = "find_start" =>
             /\ \A i \in 1..Len(wb) : \A p \in DOMAIN wb[i].cells :
                    /\ ~wb[i].cells[p].formula
                    /\ \E j \in 1..Len(wb0) :
                          /\ wb0[j].name = wb[i].name
                          /\ wb0[j].cells[p].text = wb[i].cells[p].text
             /\ dynamic_start' = IF DdpCols(OrigPsCells) = {} THEN NONE
                                 ELSE ExpectedStartCol(OrigPsCells)
        /\ pc # "find_start" => dynamic_start' = dynamic_start
        /\ pc = "clear_ps" =>
             \A p \in DOMAIN wb[ps_ws].cells :
                 wb'[ps_ws].cells[p] =
                     IF p[2] >= EffectiveStartCol(dynamic_start)
                     THEN EmptyCell ELSE wb[ps_ws].cells[p]
      ]_vars

\* C3 witness: the bulk clear is about to run with a start column computed
\* from a marker that the rewrite has since removed from PS.
C3_Witness ==
    /\ pc = "clear_ps"
    /\ dynamic_start = 10
    /\ DdpCols(wb[ps_ws].cells) = {}

\* C4: once replace_ddp_fob_and_normalize_fob_usa_all_sheets has run, no cell
\* of any worksheet holds "DDP" in any casing; in a cell that held it every
\* occurrence has become "FOB" and the rest of the text is as it was, unless
\* the cell now holds the FOB+USA rule's "FOB, BUSAN PORT".
C4_NoDdpAfterReplace ==
    [][ pc = "replace" =>
          \A i \in 1..Len(wb) : \A p \in DOMAIN wb[i].cells :
              LET a == wb[i].cells[p].text
                  b == wb'[i].cells[p].text
              IN /\ ~ContainsCI(b, DDP)
                 /\ ContainsCI(a, DDP) =>
                        (b = FOB_BUSAN_PORT \/ SubstitutedIn(a, b))
      ]_vars

\* C4 witness: the rewrite has run on a cell holding "DDP" twice, in two
\* casings, and both have become "FOB" around the untouched "x".
C4_Witness ==
    /\ pc = "uppermost"
    /\ \E p \in Grid :
          /\ OrigPsCells[p].text = T_DdpTwice
          /\ wb[ps_ws].cells[p].text = <<"F","O","B","x","F","O","B">>

\* C5: after the replacement pass every cell that held both "FOB" (counted
\* after the DDP -> FOB substitution) and "USA", in any casing, holds exactly
\* "FOB, BUSAN PORT", and no other cell is overwritten by that rule.
C5_FobUsaNormalized ==
    [][ pc = "replace" =>
          \A i \in 1..Len(wb) : \A p \in DOMAIN wb[i].cells :
              LET a == wb[i].cells[p].text
                  b == wb'[i].cells[p].text
              IN IF /\ ContainsCI(a, DDP) \/ ContainsCI(a, FOB)
                    /\ ContainsCI(a, USA)
                 THEN b = FOB_BUSAN_PORT
                 ELSE SubstitutedIn(a, b)
      ]_vars

\* C5 witness: the pass has run on a sheet with a "ddP ... USA" cell, now the
\* canonical string, beside a plain "FOB" cell, left as it was.
C5_Witness ==
    /\ pc = "uppermost"
    /\ \E p \in Grid, q \in Grid :
          /\ OrigPsCells[p].text = T_DdpUsa
          /\ wb[ps_ws].cells[p].text = FOB_BUSAN_PORT
          /\ OrigPsCells[q].text = FOB
          /\ wb[ps_ws].cells[q].text = FOB

\* A sheet name other than "cover" in any casing.
NotCover(name) == Lower(name) # <<"c","o","v","e","r">>

\* C6: a worksheet named "cover" in any casing is deleted and every other
\* worksheet stays, in its original order, in the workbook and in the file
\* written; without such a worksheet the deletion step changes nothing and
\* raises no error.
C6_CoverDeleted ==
    [][ /\ pc = "delete_cover" =>
             IF \E i \in 1..Len(wb) : ~NotCover(wb[i].name)
             THEN Len(wb) > 1 =>
                     /\ ~raised'
                     /\ wb' = SelectSeq(wb, LAMBDA sh : NotCover(sh.name))
             ELSE ~raised' /\ wb' = wb
        /\ writes' # writes =>
             SheetNames(disk'[FileKey(out)]) = SelectSeq(SheetNames(wb0), NotCover)
      ]_vars

\* C6 witness: the output file has been written from a workbook that had a
\* "Cover" sheet after two other sheets, and holds those two in their order.
C6_Witness ==
    /\ pc = "exited"
    /\ writes # <<>>
    /\ Len(wb0) = 3
    /\ ~NotCover(wb0[3].name)
    /\ SheetNames(disk[FileKey(out)]) = <<wb0[1].name, wb0[2].name>>

\* C7: freeze_to_values leaves every MergedCell as it is, gives every other
\* cell with a cached value exactly that value, leaves a cell without a
\* cached value with the formula or text it had, and run a second time
\* changes nothing.
C7_FreezeToValues ==
    [][ (opx_pc = "freeze" /\ opx_runs' = opx_runs + 1) =>
          /\ Len(opx_wb') = Len(opx_wb)
          /\ \A i \in 1..Len(opx_wb) : \A j \in 1..Len(opx_wb_vals) :
               opx_wb_vals[j].name = opx_wb[i].name =>
                 \A p \in DOMAIN opx_wb[i].cells :
                    LET before == opx_wb[i].cells[p]
                        after  == opx_wb'[i].cells[p]
                        cached == opx_wb_vals[j].cells[p].value
                    IN IF before.merged THEN after = before
                       ELSE IF cached # <<>>
                       THEN after = [merged |-> FALSE, value |-> cached]
                       ELSE after = before
          /\ opx_runs >= 1 => opx_wb' = opx_wb
      ]_vars

\* C7 witness: the freeze has run twice on a sheet that now holds a cached
\* value where a formula was, a formula that had no cached value, and a
\* MergedCell.
C7_Witness ==
    /\ opx_runs = 2
    /\ \E i \in 1..Len(opx_wb) : \E p \in OpxGrid, q \in OpxGrid, r \in OpxGrid :
          /\ opx_wb[i].cells[p].value = T_7
          /\ opx_wb[i].cells[q].value = T_Formula2
          /\ opx_wb[i].cells[r].merged

\* out has been computed from src.
OutComputed == pc \notin {"get_src_path", "rename", "idle"} /\ src # <<>>

\* The name starts with six digits, one whitespace character and "PS-" in
\* any casing.
IsDatePsName(name) ==
    /\ Len(name) >= 10
    /\ \A i \in 1..6 : name[i] \in {"0","1","2","3","4","5","6","7","8","9"}
    /\ name[7] \in {" ", "\t"}
    /\ name[8] \in {"P", "p"}
    /\ name[9] \in {"S", "s"}
    /\ name[10] = "-"

\* The name starts with six digits.
IsDatedName(name) ==
    /\ Len(name) >= 6
    /\ \A i \in 1..6 : name[i] \in {"0","1","2","3","4","5","6","7","8","9"}

\* C8: for a file name of six digits, one whitespace character and "PS-" in
\* any casing, rename_to_rfp gives the six digits, a space, "RFP-" and the
\* rest of the name unchanged, extension included;
\* "250826 PS-USA-2444 EGLINTON PJT-A.xlsm" gives
\* "250826 RFP-USA-2444 EGLINTON PJT-A.xlsm".
C8_RenamePrimary ==
    OutComputed =>
        /\ IsDatePsName(src) =>
              out = SubSeq(src, 1, 6) \o <<" ","R","F","P","-">>
                        \o SubSeq(src, 11, Len(src))
        /\ src = ExampleName =>
              out = <<"2","5","0","8","2","6"," ","R","F","P","-","U","S","A","-",
                      "2","4","4","4"," ","E","G","L","I","N","T","O","N"," ",
                      "P","J","T","-","A",".","x","l","s","m">>

\* C8 witness: the output name has been computed for a name whose token is
\* written "ps-" after a tab.
C8_Witness ==
    /\ pc = "dispatch"
    /\ IsDatePsName(src)
    /\ src[7] = "\t"
    /\ src[8] = "p"

\* C9: for a name outside the date + " PS-" pattern, rename_to_rfp gives the
\* six digits + " RFP-" + the rest after at most one whitespace character
\* when the name starts with six digits and holds no "RFP-" in any casing,
\* and stem + "_RFP" + extension otherwise; in every branch the leading date
\* and the extension of the input are kept.
C9_RenameFallback ==
    OutComputed =>
        /\ ~IsDatePsName(src) =>
              IF IsDatedName(src) /\ ~ContainsCI(src, <<"R","F","P","-">>)
              THEN out = SubSeq(src, 1, 6) \o <<" ","R","F","P","-">>
                           \o SubSeq(src,
                                     IF Len(src) >= 7 /\ src[7] \in {" ", "\t"}
                                     THEN 8 ELSE 7,
                                     Len(src))
              ELSE out = Stem(src) \o <<"_","R","F","P">> \o Suffix(src)
        /\ Suffix(out) = Suffix(src)
        /\ IsDatedName(src) => SubSeq(out, 1, 6) = SubSeq(src, 1, 6)

\* C9 witness: the output name has been computed for a dated name that holds
\* "RfP-" in mixed casing, so the last branch applies and "_RFP" goes before
\* the extension.
C9_Witness ==
    /\ pc = "dispatch"
    /\ IsDatedName(src)
    /\ ~IsDatePsName(src)
    /\ ContainsCI(src, <<"R","F","P","-">>)
    /\ ~Contains(src, <<"R","F","P","-">>)
    /\ out = Stem(src) \o <<"_","R","F","P">> \o Suffix(src)

ColumnGrid ==
    {<<3, 7>>, <<4, 7>>, <<5, 3>>, <<11, 3>>, <<12, 3>>, <<2, 5>>, <<9, 5>>}

MkColumnCells(given) ==
    [p \in ColumnGrid |-> IF p \in DOMAIN given THEN given[p] ELSE EmptyCell]

T_Blank == <<" ", "\t">>

BooksColumn ==
    {<<Sheet(NM_PS,
             MkColumnCells(<<3, 7>> :> above @@ <<4, 7>> :> g4 @@ <<5, 3>> :> nxt
                           @@ <<11, 3>> :> low1 @@ <<12, 3>> :> low2),
             OneShape),
       Sheet(NM_BOM, MkColumnCells(<<2, 5>> :> other @@ <<9, 5>> :> low3), <<>>)>> :
        above \in {EmptyCell, Const(FOB)},
        g4 \in {EmptyCell, Const(T_X), Const(T_Blank)},
        nxt \in {EmptyCell, Const(T_X)},
        low1 \in {EmptyCell, Const(USA)},
        low2 \in {EmptyCell, Const(T_X)},
        other \in {EmptyCell, Const(T_X)},
        low3 \in {EmptyCell, Const(USA)}}

InitColumn ==
    /\ \E book \in BooksColumn : InitMain(book, ExampleName, TRUE)
    /\ OpxIdle

SpecColumn == InitColumn /\ [][Next]_vars

\* The last row of column col holding anything, 1 when nothing does.
LastRowOf(cells, col) ==
    IF \E p \in DOMAIN cells : p[2] = col /\ cells[p] # EmptyCell
    THEN MaxOf({p[1] : p \in {q \in DOMAIN cells : q[2] = col /\ cells[q] # EmptyCell}})
    ELSE 1

\* C11: when G4's text is not blank and its next occurrence is found at
\* (r, c) with r + 6 not beyond the last used row of column c, step D leaves
\* every cell of column c from row r + 6 down to that last used row empty.
C11_ColumnClearedBelowFound ==
    [][ ( /\ pc = "clear_col"
          /\ ~IsBlank(text_g4)
          /\ found # NoMatch
          /\ found.row + 6 <= LastRowOf(wb[found.ws].cells, found.col) ) =>
          \A p \in DOMAIN wb[found.ws].cells :
              ( /\ p[2] = found.col
                /\ p[1] >= found.row + 6
                /\ p[1] <= LastRowOf(wb[found.ws].cells, found.col) ) =>
                  wb'[found.ws].cells[p] = EmptyCell
      ]_vars

\* C12: on every exit path of main() after the Excel session has been
\* created, a failure while closing the workbook included, the opened
\* workbook has been closed and the Excel application has been quit when the
\* process ends.
C12_ExcelReleased ==
    (pc = "exited" /\ excel # "none") => (excel = "quit" /\ ~wbOpen)

\* The source workbook has no worksheet named "PS" in any casing.
NoPsSheet == \A i \in 1..Len(wb0) : Lower(wb0[i].name) # <<"p","s">>

\* C13: when no worksheet is named "PS" in any casing the run is fatal: it
\* never reaches the PS steps, the shape-preserving clear or the save, it
\* writes no file, and it ends with exit code 1.
C13_MissingPsIsFatal ==
    NoPsSheet =>
        /\ pc \notin {"find_start", "replace", "uppermost", "read_g4", "find_next",
                      "clear_col", "snapshot", "clear_ps", "restore", "saveas"}
        /\ writes = <<>>
        /\ DOMAIN disk = {FileKey(argName)}
        /\ disk[FileKey(argName)] = wb0
        /\ pc = "exited" => exitCode = 1

\* C13 witness: a run on a workbook of a data sheet and a "Cover" sheet has
\* opened it, deleted the cover, found no PS sheet, quit Excel and ended with
\* exit code 1 without writing.
C13_Witness ==
    /\ NoPsSheet
    /\ Len(wb0) = 2
    /\ Len(wb) = 1
    /\ pc = "exited"
    /\ excel = "quit"
    /\ exitCode = 1
    /\ writes = <<>>

\* The path given to the program names an existing file whose extension is
\* .xlsx or .xlsm in any casing.
AcceptedPath ==
    /\ FileKey(argName) \in DOMAIN disk
    /\ Lower(Suffix(argName)) \in {<<".","x","l","s","x">>, <<".","x","l","s","m">>}

\* C14: when the given path does not exist or its extension is neither .xlsx
\* nor .xlsm in any casing, the process ends with exit code 1 with no Excel
\* session created, no workbook opened and nothing written; otherwise
\* get_src_path returns the path.
C14_GetSrcPath ==
    IF AcceptedPath
    THEN pc # "get_src_path" => src = argName
    ELSE /\ pc \in {"get_src_path", "exited"}
         /\ pc = "exited" => exitCode = 1
         /\ excel = "none"
         /\ ~wbOpen
         /\ wb = <<>>
         /\ writes = <<>>
         /\ DOMAIN disk \subseteq {FileKey(argName)}
         /\ src = <<>>

\* C14 witness: the process has ended with exit code 1 on an existing file
\* with the extension .xls, with no Excel session created.
C14_Witness ==
    /\ pc = "exited"
    /\ exitCode = 1
    /\ excel = "none"
    /\ FileKey(argName) \in DOMAIN disk
    /\ Suffix(argName) = <<".","x","l","s">>

\* No cell of the workbook other than PS!G4 holds the text of PS!G4.
NoOtherOccurrence ==
    \A i \in 1..Len(wb) : \A p \in DOMAIN wb[i].cells :
        (i # ps_ws \/ p # <<4, 7>>) =>
            ~ContainsCI(wb[i].cells[p].text, wb[ps_ws].cells[<<4, 7>>].text)

\* C15: when the text of PS!G4 is empty or blank (the clear below the topmost
\* "FOB" may have emptied it), or no cell other than G4 holds that text, no
\* occurrence is found, the column clear changes no cell, no error is raised
\* and the run goes on to the shape-preserving clear.
C15_Stage5Skipped ==
    [][ /\ ( /\ pc = "find_next"
             /\ IsBlank(wb[ps_ws].cells[<<4, 7>>].text) \/ NoOtherOccurrence ) =>
                 /\ found' = [ws |-> 0, row |-> 0, col |-> 0]
                 /\ pc' = "clear_col"
                 /\ ~raised'
                 /\ wb' = wb
        /\ ( /\ pc = "clear_col"
             /\ found = [ws |-> 0, row |-> 0, col |-> 0] ) =>
                 /\ wb' = wb
                 /\ ~raised'
                 /\ pc' = "snapshot"
      ]_vars

\* C15 witness: G4 held "x", found again elsewhere, but "FOB" in G3 was the
\* topmost match, so G4 was emptied before it was read: nothing was searched
\* and the run has gone on to the save.
C15_Witness ==
    /\ pc = "saveas"
    /\ ~raised
    /\ wb0[1].cells[<<3, 7>>].text = FOB
    /\ wb0[1].cells[<<4, 7>>].text = T_X
    /\ wb0[1].cells[<<5, 3>>].text = T_X
    /\ text_g4 = <<>>
    /\ found = NoMatch

(***************************************************************************)
(* Runs over workbooks varied in where "FOB" and "DDP" stand near the top   *)
(* of two sheets, in either sheet order                                     *)
(***************************************************************************)
UppermostGrid == {<<2, 3>>, <<3, 3>>, <<2, 5>>, <<3, 5>>, <<4, 7>>}

MkUppermostCells(given) ==
    [p \in UppermostGrid |-> IF p \in DOMAIN given THEN given[p] ELSE EmptyCell]

T_Fob2 == <<"f","o","b","2">>

BooksUppermost ==
    UNION {
      { <<Sheet(NM_PS, MkUppermostCells(<<2, 3>> :> a @@ <<3, 3>> :> b @@ <<2, 5>> :> c
                                        @@ <<3, 5>> :> Const(T_X)), OneShape),
          Sheet(NM_BOM, MkUppermostCells(<<2, 3>> :> e @@ <<3, 3>> :> Const(T_X)
                                         @@ <<2, 5>> :> g), <<>>)>>,
        <<Sheet(NM_BOM, MkUppermostCells(<<2, 3>> :> e @@ <<3, 3>> :> Const(T_X)
                                         @@ <<2, 5>> :> g), <<>>),
          Sheet(NM_PS, MkUppermostCells(<<2, 3>> :> a @@ <<3, 3>> :> b @@ <<2, 5>> :> c
                                        @@ <<3, 5>> :> Const(T_X)), OneShape)>> } :
        a \in {EmptyCell, Const(FOB), Const(T_X)},
        b \in {Const(T_X), Const(T_Fob2)},
        c \in {EmptyCell, Const(DDP)},
        e \in {EmptyCell, Const(FOB)},
        g \in {EmptyCell, Const(FOB)} }

InitUppermost ==
    /\ \E book \in BooksUppermost : InitMain(book, ExampleName, TRUE)
    /\ OpxIdle

SpecUppermost == InitUppermost /\ [][Next]_vars

\* The cells, as <<sheet, position>>, whose text holds "FOB" in any casing.
FobCells ==
    UNION {{<<i, p>> : p \in {q \in DOMAIN wb[i].cells :
                                ContainsCI(wb[i].cells[q].text, <<"F","O","B">>)}} :
           i \in 1..Len(wb)}

\* The one of FobCells with the smallest row, then the smallest column, then
\* the earliest sheet.
TopmostFob ==
    CHOOSE h \in FobCells : \A g \in FobCells :
        \/ h[2][1] < g[2][1]
        \/ h[2][1] = g[2][1] /\ h[2][2] < g[2][2]
        \/ h[2] = g[2] /\ h[1] <= g[1]

\* C16: after the rewrite, step A clears exactly the cell right below the
\* occurrence of "FOB" (any casing, substring) with the smallest row, then
\* the smallest column, the earlier sheet winning a tie; without any "FOB"
\* cell it clears nothing.
C16_ClearBelowTopmostFob ==
    [][ pc = "uppermost" =>
          IF FobCells = {} THEN wb' = wb
          ELSE /\ Len(wb') = Len(wb)
               /\ \A i \in 1..Len(wb) :
                    /\ wb'[i].name = wb[i].name
                    /\ wb'[i].shapes = wb[i].shapes
                    /\ \A p \in DOMAIN wb[i].cells :
                         wb'[i].cells[p] =
                            IF /\ i = TopmostFob[1]
                               /\ p = <<TopmostFob[2][1] + 1, TopmostFob[2][2]>>
                            THEN EmptyCell ELSE wb[i].cells[p]
      ]_vars

\* C16 witness: the first sheet held "fob2" in C3 and "DDP" in E2, the
\* second "FOB" in E2: after the rewrite both E2 cells are the topmost
\* matches, the first sheet wins, and its E3, which held "x", has been
\* emptied.
C16_Witness ==
    /\ pc = "read_g4"
    /\ Len(wb) = 2
    /\ wb0[1].cells[<<3, 3>>].text = T_Fob2
    /\ wb0[1].cells[<<2, 3>>] = EmptyCell
    /\ wb0[1].cells[<<2, 5>>].text = DDP
    /\ wb0[2].cells[<<2, 5>>].text = FOB
    /\ wb0[2].cells[<<2, 3>>] = EmptyCell
    /\ wb0[1].cells[<<3, 5>>].text = T_X
    /\ wb[1].cells[<<3, 5>>] = EmptyCell
    /\ wb[1].cells[<<2, 5>>].text = FOB

(***************************************************************************)
(* Runs over PS shapes of distinct names on which one kind of operation     *)
(* fails                                                                    *)
(***************************************************************************)
FaultKinds == {"none", "fetch", "name", "props", "unlock", "move"}

FaultyShape(i, fault, locked) ==
    [Name |-> IF i = 1 THEN "Picture 1" ELSE IF i = 2 THEN "Picture 2" ELSE "Picture 3",
     Left |-> 40 * i, Top |-> 30, Width |-> 20, Height |-> 15,
     Locked |-> locked, Fault |-> fault]

FaultyShapeLists ==
    UNION {{[i \in 1..n |-> FaultyShape(i, fl[i][1], fl[i][2])] :
               fl \in [1..n -> FaultKinds \X BOOLEAN]} : n \in 0..MaxShapes}

BooksShapeFaults ==
    {<<Sheet(NM_PS, MkCells(<<4, 7>> :> Const(T_DdpUsa) @@ <<4, 12>> :> Const(T_X)),
             shapes),
       Sheet(NM_BOM, MkCells(<<2, 5>> :> Const(FOB)), <<>>)>> :
        shapes \in FaultyShapeLists}

InitShapeFaults ==
    /\ \E book \in BooksShapeFaults : InitMain(book, ExampleName, TRUE)
    /\ OpxIdle

SpecShapeFaults == InitShapeFaults /\ [][Next]_vars

\* C17: a failure of an operation on one shape during the shape-preserving
\* clear never aborts the run: the snapshot step goes on to the column clear
\* and the restore step to the save without an error raised, and every shape
\* on which no operation fails is back at its original values after the
\* restore.
C17_ShapeFailureSkipped ==
    [][ /\ pc = "snapshot" => (pc' = "clear_ps" /\ ~raised')
        /\ pc = "restore" =>
             /\ pc' = "saveas"
             /\ ~raised'
             /\ \A i \in 1..Len(OrigShapes) :
                    ("Fault" \in DOMAIN OrigShapes[i] /\ OrigShapes[i].Fault = "none")
                        => wb'[ps_ws].shapes[i] = OrigShapes[i]
      ]_vars

(***************************************************************************)
(* Runs over PS sheets whose "DDP" markers stand in columns G, I, X and     *)
(* near the last column, above data in the columns around each start        *)
(***************************************************************************)
MarkerCols == {7, 9, 24, 16381, 16382}

DataCols == {9, 10, 11, 12, 26, 27, 16383, 16384}

ClearGrid == {<<2, c>> : c \in MarkerCols} \cup {<<3, c>> : c \in DataCols}

BooksClear ==
    {<<Sheet(NM_PS,
             [p \in ClearGrid |->
                 IF p[1] = 2 THEN (IF p[2] \in marks THEN Const(DDP) ELSE EmptyCell)
                 ELSE IF p[2] = 12 THEN at12 ELSE Const(T_X)],
             OneShape),
       Sheet(NM_BOM,
             [p \in ClearGrid |-> IF p[1] = 3 THEN Const(T_X) ELSE EmptyCell],
             <<>>)>> :
        marks \in SUBSET MarkerCols, at12 \in {EmptyCell, Const(T_X)}}

InitClear ==
    /\ \E book \in BooksClear : InitMain(book, ExampleName, TRUE)
    /\ OpxIdle

SpecClear == InitClear /\ [][Next]_vars

\* The start column of the bulk clear: the computed one, 12 when none was.
ClearStart == IF dynamic_start = 0 THEN 12 ELSE dynamic_start

\* C18: the bulk clear empties every PS cell in the columns from the start
\* column (the computed one, 12 when none) to XFD = 16384 and changes nothing
\* else: not the PS cells left of the start, not any other worksheet; the
\* range is addressed by column_index_to_label, which gives "J" for 10, "L"
\* for 12, "AA" for 27 and "XFD" for 16384.
C18_ClearFromStartToXfd ==
    [][ pc = "clear_ps" =>
          /\ Len(wb') = Len(wb)
          /\ \A i \in 1..Len(wb) :
               /\ wb'[i].name = wb[i].name
               /\ wb'[i].shapes = wb[i].shapes
               /\ \A p \in DOMAIN wb[i].cells :
                    wb'[i].cells[p] =
                       IF i = ps_ws /\ ClearStart <= p[2] /\ p[2] <= 16384
                       THEN [formula |-> FALSE, text |-> <<>>]
                       ELSE wb[i].cells[p]
          /\ ClearStart = 10 => ColumnIndexToLabel(ClearStart) = <<"J">>
          /\ ClearStart = 12 => ColumnIndexToLabel(ClearStart) = <<"L">>
          /\ ClearStart = 27 => ColumnIndexToLabel(ClearStart) = <<"A","A">>
          /\ ClearStart = 16384 => ColumnIndexToLabel(ClearStart) = <<"X","F","D">>
      ]_vars

\* C18 witness: the bulk clear has run from column AA = 27: the PS cell in
\* column 27 is empty, the one in column 26 and both on the other sheet
\* still hold their text.
C18_Witness ==
    /\ pc = "restore"
    /\ dynamic_start = 27
    /\ wb[ps_ws].cells[<<3, 27>>] = EmptyCell
    /\ wb[ps_ws].cells[<<3, 16384>>] = EmptyCell
    /\ wb[ps_ws].cells[<<3, 26>>].text = T_X
    /\ wb[3 - ps_ws].cells[<<3, 27>>].text = T_X

\* The extension of the source name is .xlsm in any casing.
MacroInput == Lower(Suffix(src)) = <<".","x","l","s","m">>

\* C19: the workbook is saved with FileFormat 52 (macro-enabled) when the
\* input extension is .xlsm in any casing and with FileFormat 51 otherwise,
\* so a macro-capable input is never saved in the plain format; the output
\* extension equals the input extension.
C19_SaveFormatFollowsInput ==
    [][ (pc = "saveas" /\ writes' # writes) =>
          /\ fileformat = IF MacroInput THEN 52 ELSE 51
          /\ writes' = Append(writes, out)
          /\ Suffix(out) = Suffix(src)
      ]_vars

\* C19 witness: a source named with the extension ".XLSM" has been saved,
\* macro-enabled, under a name with the same extension.
C19_Witness ==
    /\ pc = "exited"
    /\ writes = <<out>>
    /\ Suffix(src) = <<".","X","L","S","M">>
    /\ Suffix(out) = <<".","X","L","S","M">>
    /\ fileformat = 52

\* C20: the process ends with exit code 1 after every fatal failure (a path
\* that is not accepted, a workbook that cannot be opened, no PS sheet, a
\* SaveAs that fails) and with exit code 0 in every other run, and then the
\* save to the output name has been completed.
C20_ExitStatus ==
    pc = "exited" =>
        /\ exitCode = IF writes = <<out>> /\ out # <<>> /\ ~wbOpen THEN 0 ELSE 1
        /\ ~AcceptedPath => exitCode = 1
        /\ wb = <<>> => exitCode = 1
        /\ NoPsSheet => exitCode = 1
        /\ writes = <<>> => exitCode = 1
        /\ exitCode = 0 =>
              /\ FileKey(out) \in DOMAIN disk
              /\ disk[FileKey(out)] = wb
              /\ excel = "quit"

\* C20 witness: a run went through every stage up to the restore of the
\* shapes, SaveAs failed, the workbook was closed, Excel quit and the
\* process ended with exit code 1 without an output file.
C20_Witness ==
    /\ pc = "exited"
    /\ exitCode = 1
    /\ shapes_info # <<>>
    /\ writes = <<>>
    /\ ~wbOpen
    /\ excel = "quit"

(***************************************************************************)
(* bom_parser_v2.py: main() from the two loads of the workbook to the       *)
(* deletion of rows 1:3 of the BOM sheet.                                   *)
(*                                                                         *)
(* A worksheet is [name, cells, max_row, max_column].  cells is a function  *)
(* on the positions that hold a value or a MergedCell, each an              *)
(* OpxCell(merged, value); every other position of the rectangle            *)
(* 1..max_row x 1..max_column holds, or is given by the first loop that     *)
(* visits it, a cell whose value is None.                                   *)
(***************************************************************************)
REFERENCE == <<"r","e","f","e","r","e","n","c","e">>
BOM == <<"b","o","m">>

window_start == 7

WindowLastRow == 77

FirstPrunedCol == 10

LastPrunedCol == 46

RowsDeleted == 3

\* is_cell_empty(value)
IsCellEmpty(value) == value = OpxNone \/ IsBlank(value)

\* ws.cell(row, column).value
BomValue(ws, r, c) ==
    IF <<r, c>> \in DOMAIN ws.cells THEN ws.cells[<<r, c>>].value ELSE OpxNone

\* The two inner loops of the freeze on one sheet: every cell of the
\* rectangle mr x mc is visited (and created in ws_main when missing), and a
\* cell that is not a MergedCell takes the cached value when there is one.
BomFreezeSheet(ws_main, ws_vals) ==
    LET mr == MaxOf({ws_main.max_row, ws_vals.max_row})
        mc == MaxOf({ws_main.max_column, ws_vals.max_column})
        cached == {p \in DOMAIN ws_vals.cells : ws_vals.cells[p].value # OpxNone}
        dom == DOMAIN ws_main.cells \cup cached
    IN [ws_main EXCEPT
          !.cells = [p \in dom |->
                       IF p \in DOMAIN ws_main.cells /\ ws_main.cells[p].merged
                       THEN ws_main.cells[p]
                       ELSE IF p \in cached
                       THEN OpxCell(FALSE, ws_vals.cells[p].value)
                       ELSE ws_main.cells[p]],
          !.max_row = mr,
          !.max_column = mc]

\* for name in wb.sheetnames: ... (the whole freeze)
BomFreezeAll(book, book_vals) ==
    [i \in 1..Len(book) |->
        IF ~InSheetNames(book_vals, book[i].name) THEN book[i]
        ELSE BomFreezeSheet(book[i], book_vals[SheetIndex(book_vals, book[i].name)])]

\* ws.unmerge_cells for every merged range: the MergedCells leave the sheet.
\* Every other position of the rectangle holds a cell since the freeze, so
\* the sheet keeps a row (a column) unless all of it was MergedCells.
UnmergeAll(ws) ==
    LET merged == {p \in DOMAIN ws.cells : ws.cells[p].merged}
        rows == {r \in 1..ws.max_row :
                    \E c \in 1..ws.max_column : <<r, c>> \notin merged}
        cols == {c \in 1..ws.max_column :
                    \E r \in 1..ws.max_row : <<r, c>> \notin merged}
    IN [ws EXCEPT
          !.cells = [p \in DOMAIN ws.cells \ merged |-> ws.cells[p]],
          !.max_row = IF rows = {} THEN 1 ELSE MaxOf(rows),
          !.max_column = IF cols = {} THEN 1 ELSE MaxOf(cols)]

\* ws.delete_cols(idx, 1): the columns right of idx move one to the left.
DeleteCols(ws, idx) ==
    LET left == {p \in DOMAIN ws.cells : p[2] < idx}
        moved == {<<p[1], p[2] - 1>> : p \in {q \in DOMAIN ws.cells : q[2] > idx}}
    IN [ws EXCEPT
          !.cells = [p \in left \cup moved |->
                       IF p[2] < idx THEN ws.cells[p]
                       ELSE ws.cells[<<p[1], p[2] + 1>>]],
          !.max_column = IF idx <= ws.max_column /\ ws.max_column > 1
                         THEN ws.max_column - 1 ELSE ws.max_column]

\* The inner loop over the window: empty_in_window for column col_idx.
EmptyInWindow(ws, col_idx, window_end) ==
    \A row_idx \in window_start..window_end :
        IsCellEmpty(BomValue(ws, row_idx, col_idx))

\* The loop visiting the columns from low to high.
PruneLoopAscending(ws, col_idx, window_end) ==
    LET RECURSIVE Up(_, _, _)
        Up(sheet, idx, last) ==
            IF idx > last THEN sheet
            ELSE IF EmptyInWindow(sheet, idx, window_end)
            THEN Up(DeleteCols(sheet, idx), idx + 1, last)
            ELSE Up(sheet, idx + 1, last)
    IN Up(ws, FirstPrunedCol, col_idx)

\* for col_idx in range(min(ws.max_column, 46), 9, -1): from col_idx down.
RECURSIVE PruneLoop(_, _, _)
PruneLoop(ws, col_idx, window_end) ==
    IF col_idx < FirstPrunedCol THEN ws
    ELSE IF EmptyInWindow(ws, col_idx, window_end)
    THEN PruneLoop(DeleteCols(ws, col_idx), col_idx - 1, window_end)
    ELSE PruneLoop(ws, col_idx - 1, window_end)

\* The column pruning of main() on the BOM sheet.
PruneColumns(ws) ==
    LET window_end == MinOf({WindowLastRow, ws.max_row})
    IN IF ws.max_row >= window_start /\ ws.max_column >= FirstPrunedCol
       THEN PruneLoop(ws, MinOf({ws.max_column, LastPrunedCol}), window_end)
       ELSE ws

\* ws.delete_rows(idx=1, amount=3)
DeleteRows13(ws) ==
    LET moved == {<<p[1] - RowsDeleted, p[2]>> :
                     p \in {q \in DOMAIN ws.cells : q[1] > RowsDeleted}}
    IN [ws EXCEPT
          !.cells = [p \in moved |-> ws.cells[<<p[1] + RowsDeleted, p[2]>>]],
          !.max_row = IF ws.max_row > RowsDeleted
                      THEN ws.max_row - RowsDeleted ELSE 1,
          !.max_column = IF ws.max_row > RowsDeleted THEN ws.max_column ELSE 1]

\* The index of the BOM sheet in wb, 0 when there is none.
BomIndex(book) == FirstSheetNamed(book, BOM)

\* Freeze formulas to values
BomFreeze ==
    /\ opx_pc = "bom_freeze"
    /\ opx_wb' = BomFreezeAll(opx_wb, opx_wb_vals)
    /\ opx_pc' = "bom_reference"
    /\ UNCHANGED <<opx_wb_vals, opx_runs, mainVars>>

\* 1) Delete worksheet "REFERENCE" (case-insensitive)
BomDeleteReference ==
    /\ opx_pc = "bom_reference"
    /\ opx_wb' = IF FirstSheetNamed(opx_wb, REFERENCE) = 0 THEN opx_wb
                 ELSE RemoveAt(opx_wb, FirstSheetNamed(opx_wb, REFERENCE))
    /\ opx_pc' = "bom_find"
    /\ UNCHANGED <<opx_wb_vals, opx_runs, mainVars>>

\* The search for the "BOM" sheet; sys.exit(1) without one.
BomFindSheet ==
    /\ opx_pc = "bom_find"
    /\ opx_pc' = IF BomIndex(opx_wb) = 0 THEN "bom_exit" ELSE "bom_unmerge"
    /\ UNCHANGED <<opx_wb, opx_wb_vals, opx_runs, mainVars>>

\* Unmerge all merged ranges; the reset of the horizontal alignment that
\* follows visits every cell of the rectangle and changes no value.
BomUnmerge ==
    /\ opx_pc = "bom_unmerge"
    /\ opx_wb' = [opx_wb EXCEPT ![BomIndex(opx_wb)] = UnmergeAll(@)]
    /\ opx_pc' = "bom_prune"
    /\ UNCHANGED <<opx_wb_vals, opx_runs, mainVars>>

\* Remove columns empty within rows 7..77, only for J:AT
BomPruneColumns ==
    /\ opx_pc = "bom_prune"
    /\ opx_wb' = [opx_wb EXCEPT ![BomIndex(opx_wb)] = PruneColumns(@)]
    /\ opx_pc' = "bom_rows"
    /\ UNCHANGED <<opx_wb_vals, opx_runs, mainVars>>

\* Remove rows 1:3
BomDeleteRows ==
    /\ opx_pc = "bom_rows"
    /\ opx_wb' = [opx_wb EXCEPT ![BomIndex(opx_wb)] = DeleteRows13(@)]
    /\ opx_pc' = "bom_save"
    /\ UNCHANGED <<opx_wb_vals, opx_runs, mainVars>>

NextBom ==
    \/ BomFreeze
    \/ BomDeleteReference
    \/ BomFindSheet
    \/ BomUnmerge
    \/ BomPruneColumns
    \/ BomDeleteRows

(***************************************************************************)
(* Runs of bom_parser_v2.py                                                 *)
(***************************************************************************)
NM_Reference == <<"R","e","f","e","r","e","n","c","e">>
NM_Bom == <<"B","o","m">>

\* The text a followed cell of column c holds: "x" and the column's letters.
BomText(c) == <<"x">> \o ColumnIndexToLabel(c)

\* What a followed column holds, as a function from some rows to the cell
\* the two loads see there: nothing; a value in the first row of the window;
\* blanks there; a value in the last row of the window; a value below the
\* window; a MergedCell in the window; a formula with a cached value in the
\* window; a value above the window.
ColumnKinds(c) ==
    <<<<>>,
      [r \in {7} |-> [main |-> OpxCell(FALSE, BomText(c)),
                      vals |-> OpxCell(FALSE, BomText(c))]],
      [r \in {7} |-> [main |-> OpxCell(FALSE, <<" ", "\t">>),
                      vals |-> OpxCell(FALSE, <<" ", "\t">>)]],
      [r \in {77} |-> [main |-> OpxCell(FALSE, BomText(c)),
                       vals |-> OpxCell(FALSE, BomText(c))]],
      [r \in {78} |-> [main |-> OpxCell(FALSE, BomText(c)),
                       vals |-> OpxCell(FALSE, BomText(c))]],
      [r \in {8} |-> [main |-> OpxCell(TRUE, OpxNone),
                      vals |-> OpxCell(TRUE, OpxNone)]],
      [r \in {8} |-> [main |-> OpxCell(FALSE, T_Formula),
                      vals |-> OpxCell(FALSE, BomText(c))]],
      [r \in {3} |-> [main |-> OpxCell(FALSE, BomText(c)),
                      vals |-> OpxCell(FALSE, BomText(c))]]>>

NumColumnKinds == 6

\* The columns whose content varies, and the column I, which holds a value
\* in row 3 only.
VariedCols == {10, 11, 46, 47}

HeaderCol == FirstPrunedCol - 1

\* kinds: a function from VariedCols to 1..NumColumnKinds.
BomGiven(kinds) ==
    LET kindOf(c) == IF c = HeaderCol THEN ColumnKinds(c)[8]
                     ELSE ColumnKinds(c)[kinds[c]]
        held == {<<r, c>> \in (1..78) \X (VariedCols \cup {HeaderCol}) :
                    r \in DOMAIN kindOf(c)}
    IN [p \in held |-> kindOf(p[2])[p[1]]]

\* The sheet one load of the file gives: which \in {"main", "vals"}.
BomSheet(name, given, which) ==
    [name |-> name,
     cells |-> [p \in DOMAIN given |->
                  IF which = "main" THEN given[p].main ELSE given[p].vals],
     max_row |-> IF DOMAIN given = {} THEN 1
                 ELSE MaxOf({p[1] : p \in DOMAIN given}),
     max_column |-> IF DOMAIN given = {} THEN 1
                    ELSE MaxOf({p[2] : p \in DOMAIN given})]

\* The workbooks given: the BOM sheet alone, a Reference sheet before the
\* BOM sheet, or no BOM sheet.
BomBook(layout, given, which) ==
    IF layout = 0 THEN <<BomSheet(NM_BOM, given, which)>>
    ELSE IF layout = 1
    THEN <<BomSheet(NM_Reference, <<>>, which), BomSheet(NM_Bom, given, which)>>
    ELSE <<BomSheet(NM_Reference, <<>>, which), BomSheet(NM_PS, given, which)>>

\* bom_parser_v2.main() has loaded wb and wb_vals from one file.
InitBom ==
    /\ \E kinds \in [VariedCols -> 1..NumColumnKinds], layout \in {0, 1, 2} :
         /\ opx_wb = BomBook(layout, BomGiven(kinds), "main")
         /\ opx_wb_vals = BomBook(layout, BomGiven(kinds), "vals")
    /\ opx_pc = "bom_freeze"
    /\ opx_runs = 0
    /\ MainIdle

SpecBom == InitBom /\ [][NextBom]_vars

(***************************************************************************)
(* Properties of bom_parser_v2.py                                           *)
(***************************************************************************)
\* The columns the documents ask to remove from a sheet: the columns J..AT
\* whose cells in rows 7..min(77, last row) are all empty, none on a sheet
\* with fewer than 7 rows or fewer than 10 columns.
RemovedCols(ws) ==
    IF ws.max_row < 7 \/ ws.max_column < 10 THEN {}
    ELSE {c \in 10..46 :
            \A r \in 7..MinOf({77, ws.max_row}) :
                \/ <<r, c>> \notin DOMAIN ws.cells
                \/ ws.cells[<<r, c>>].value = <<>>
                \/ \A i \in 1..Len(ws.cells[<<r, c>>].value) :
                      ws.cells[<<r, c>>].value[i] \in {" ", "\t"}}

\* The index a surviving column has once the columns of RemovedCols are gone.
NewCol(ws, c) == c - Cardinality({d \in RemovedCols(ws) : d < c})

\* C21: the column pruning of bom_parser_v2 removes a column of the BOM sheet
\* if and only if its index before the pruning is in 10..46 and all its cells
\* in rows 7..min(77, last row) are empty, judged before rows 1:3 are deleted;
\* the surviving columns keep their cells and their relative order, and a
\* sheet with fewer than 7 rows or fewer than 10 columns loses no column.
C21_ColumnPruning ==
    [][opx_pc = "bom_prune" =>
          LET ws == opx_wb[BomIndex(opx_wb)]
              pruned == opx_wb'[BomIndex(opx_wb)]
              kept == {p \in DOMAIN ws.cells : p[2] \notin RemovedCols(ws)}
          IN /\ opx_pc' = "bom_rows"
             /\ DOMAIN pruned.cells = {<<p[1], NewCol(ws, p[2])>> : p \in kept}
             /\ \A p \in kept :
                   pruned.cells[<<p[1], NewCol(ws, p[2])>>] = ws.cells[p]
             /\ pruned.max_row = ws.max_row
             /\ pruned.max_column =
                   ws.max_column
                     - Cardinality({c \in RemovedCols(ws) : c <= ws.max_column})
             /\ (ws.max_row < 7 \/ ws.max_column < 10) => pruned = ws
      ]_vars

\* C21 witness: the pruning has run on a sheet whose columns J and K (and
\* L..AS) were empty in the window while AT held a value in row 7 and AU one
\* in row 78 only: the value of AT stands in J, that of AU in K.
C21_Witness ==
    /\ opx_pc = "bom_rows"
    /\ BomIndex(opx_wb) # 0
    /\ BomValue(opx_wb[BomIndex(opx_wb)], 7, 10) = BomText(46)
    /\ BomValue(opx_wb[BomIndex(opx_wb)], 78, 11) = BomText(47)

\* The index of the last shape of OrigShapes carrying the name of shape i.
LastOfName(i) ==
    CHOOSE k \in 1..Len(OrigShapes) :
        /\ OrigShapes[k].Name = OrigShapes[i].Name
        /\ \A j \in 1..Len(OrigShapes) :
              OrigShapes[j].Name = OrigShapes[i].Name => j <= k

Relocated(shapes) ==
    {i \in 1..Len(shapes) : Fault(shapes[i]) \in {"none", "unlock"}}

\* Height + 10 summed over the relocated shapes before shape i.
RECURSIVE StackedAbove(_, _)
StackedAbove(shapes, i) ==
    IF i <= 1 THEN 0
    ELSE StackedAbove(shapes, i - 1)
           + (IF i - 1 \in Relocated(shapes) THEN shapes[i - 1].Height + 10 ELSE 0)

\* Every relocated shape stands at the left edge of A1 (0), its top at A1's
\* top (0) plus the heights and spacings before it, and no two of them overlap.
Stacked(shapes) ==
    /\ \A i \in Relocated(shapes) :
          /\ shapes[i].Left = 0
          /\ shapes[i].Top = 0 + StackedAbove(shapes, i)
    /\ \A i, j \in Relocated(shapes) :
          i < j => shapes[i].Top + shapes[i].Height < shapes[j].Top

\* C23: when the bulk column clear of stage 6 executes, every relocated shape
\* has the Left of cell A1 and the relocated shapes are stacked from A1's top
\* downwards, each below the one before it by that one's Height + 10, so that
\* no two overlap; the clear runs right after the relocation, leaves the
\* shapes alone and is followed by the restore, never the other way round.
C23_ShapesStackedDuringClear ==
    [][/\ pc = "clear_ps" =>
             /\ Stacked(wb[ps_ws].shapes)
             /\ wb'[ps_ws].shapes = wb[ps_ws].shapes
             /\ Len(shapes_info) = Cardinality(Relocated(wb[ps_ws].shapes)
                                      \cup {i \in 1..Len(wb[ps_ws].shapes) :
                                               Fault(wb[ps_ws].shapes[i]) = "move"})
             /\ pc' = "restore"
       /\ pc' = "clear_ps" => pc = "snapshot"
       /\ pc = "restore" => pc' \in {"saveas", "finally_close"}
      ]_vars

\* C23 witness: the bulk clear has emptied L4 while two shapes of different
\* heights, neither of which was in column A before, stood stacked in the
\* safe area, the second below the first by the first's Height + 10.
C23_Witness ==
    /\ pc = "restore"
    /\ Len(OrigShapes) = 2
    /\ OrigShapes[1].Left # 0
    /\ OrigShapes[2].Left # 0
    /\ OrigShapes[1].Height # OrigShapes[2].Height
    /\ wb[ps_ws].shapes[1].Left = 0
    /\ wb[ps_ws].shapes[1].Top = 0
    /\ wb[ps_ws].shapes[2].Left = 0
    /\ wb[ps_ws].shapes[2].Top = OrigShapes[1].Height + 10
    /\ OrigPsCells[<<4, 12>>] # EmptyCell
    /\ wb[ps_ws].cells[<<4, 12>>] = EmptyCell

(***************************************************************************)
(* Runs over PS sheets whose "DDP" markers stand in columns A, B and next   *)
(* to the last column, above data in columns A..E and XFD                   *)
(***************************************************************************)
EdgeMarkerCols == {1, 2, 16382}

EdgeDataCols == {1, 2, 3, 4, 5, 16384}

EdgeGrid == {<<2, c>> : c \in EdgeMarkerCols} \cup {<<3, c>> : c \in EdgeDataCols}

BooksEdge ==
    {<<Sheet(NM_PS,
             [p \in EdgeGrid |->
                 IF p[1] = 2 THEN (IF p[2] \in marks THEN Const(DDP) ELSE EmptyCell)
                 ELSE IF p[2] \in blanks THEN EmptyCell ELSE Const(T_X)],
             OneShape),
       Sheet(NM_BOM,
             [p \in EdgeGrid |-> IF p[1] = 3 THEN Const(T_X) ELSE EmptyCell],
             <<>>)>> :
        marks \in SUBSET EdgeMarkerCols, blanks \in SUBSET {3, 4}}

InitEdge ==
    /\ \E book \in BooksEdge : InitMain(book, ExampleName, TRUE)
    /\ OpxIdle

SpecEdge == InitEdge /\ [][Next]_vars

\* C24: the start column the bulk clear uses is at least 4: a computed start
\* is the column of a "DDP" cell of PS plus 3, and without one the start is
\* 12; so the bulk clear leaves the PS cells of columns A, B and C and the
\* shapes standing in column A as they are, and with a start beyond 16384 it
\* changes nothing at all.
C24_StartColumnAtLeastFour ==
    [][ pc = "clear_ps" =>
          /\ ClearStart >= 4
          /\ dynamic_start # 0 =>
                \E c \in DdpCols(OrigPsCells) : c >= 1 /\ dynamic_start = c + 3
          /\ dynamic_start = 0 => (DdpCols(OrigPsCells) = {} /\ ClearStart = 12)
          /\ \A p \in DOMAIN wb[ps_ws].cells :
                p[2] < 4 => wb'[ps_ws].cells[p] = wb[ps_ws].cells[p]
          /\ wb'[ps_ws].shapes = wb[ps_ws].shapes
          /\ \A i \in 1..Len(wb[ps_ws].shapes) : wb[ps_ws].shapes[i].Left = 0
          /\ ClearStart > 16384 => wb' = wb
      ]_vars

\* C24 witness: the bulk clear has run from column D = 4, the start computed
\* from a marker in A2: A2 (the marker, rewritten by the replace stage) and
\* the PS cells of row 3 in columns B and C still hold their text, the ones
\* in D and E are empty.
C24_Witness ==
    /\ pc = "restore"
    /\ dynamic_start = 4
    /\ 1 \in DdpCols(OrigPsCells)
    /\ wb[ps_ws].cells[<<2, 1>>] # EmptyCell
    /\ wb[ps_ws].cells[<<3, 2>>].text = T_X
    /\ wb[ps_ws].cells[<<3, 3>>].text = T_X
    /\ OrigPsCells[<<3, 4>>].text = T_X
    /\ wb[ps_ws].cells[<<3, 4>>] = EmptyCell
    /\ wb[ps_ws].cells[<<3, 5>>] = EmptyCell

\* C25: the text normalization pass is idempotent: "FOB, BUSAN PORT" holds no
\* "DDP" and holds both "fob" and "usa", so the FOB+USA rule maps it to
\* itself, and replace_ddp_fob_and_normalize_fob_usa_all_sheets applied to
\* its own output changes no cell of any worksheet.
C25_NormalizationIdempotent ==
    [][ pc = "replace" =>
          /\ ~ContainsCI(FOB_BUSAN_PORT, <<"D","D","P">>)
          /\ ContainsCI(FOB_BUSAN_PORT, <<"f","o","b">>)
          /\ ContainsCI(FOB_BUSAN_PORT, <<"u","s","a">>)
          /\ FOB_BUSAN_PORT = <<"F","O","B",","," ","B","U","S","A","N"," ","P","O","R","T">>
          /\ ReplaceDdpFobAndNormalizeFobUsaAllSheets(wb') = wb'
      ]_vars

\* C25 witness: the pass has rewritten a sheet that held a "DDP ... Ddp" cell
\* and a "ddP USA" cell, the latter now "FOB, BUSAN PORT", and a second
\* application leaves the workbook as it is.
C25_Witness ==
    /\ pc = "uppermost"
    /\ \E p \in Grid, q \in Grid :
          /\ OrigPsCells[p].text = T_DdpTwice
          /\ wb[ps_ws].cells[p].text # T_DdpTwice
          /\ OrigPsCells[q].text = T_DdpUsa
          /\ wb[ps_ws].cells[q].text = FOB_BUSAN_PORT
    /\ ReplaceDdpFobAndNormalizeFobUsaAllSheets(wb) = wb

=============================================================================
